---- MODULE Spec2Model ----
(***************************************************************************)
(* A model of tiny-redis: the three job queues' algorithms at the level   *)
(* of their atomic steps, the store (Storage / Core::handle_command) as   *)
(* operators over a store value, the server's threads (connection         *)
(* handlers, dispatcher) and the parser of a connection's bytes.  Each    *)
(* part has its own specification:                                        *)
(*   SpecDisruptor    job_queue/disruptor.rs, producers and one consumer  *)
(*   SpecDisruptorFair  the same, the threads scheduled fairly            *)
(*   SpecDeque        job_queue/deque.rs, producers and one consumer      *)
(*   SpecDequeFair    the same, the threads scheduled fairly              *)
(*   SpecStore        Core::handle_command under a stream of commands     *)
(*   SpecKeys         the generic commands on two keys, without sweeps    *)
(*   SpecValues       the string, integer and list commands on one key    *)
(*   SpecWriteRead    SET/MSET followed by GET/MGET on two keys            *)
(*   SpecStrings      SETNX, GETSET, GETDEL and MGET on two keys           *)
(*   SpecLists        LPUSH, RPUSH, LPOP and RPOP on one key               *)
(*   SpecLive         in-place and read commands on a key with expiration  *)
(*   SpecInbound      connection/inbound.rs: a handler reading a stream    *)
(*   SpecRequests     the same, the stream being one array of bulk strings *)
(*   SpecTokens       the token stream over one bulk string                *)
(*   SpecEncode       connection/outbound.rs: encode, and its bytes read   *)
(*                    back by the token stream                             *)
(*   SpecServer       server.rs: connection handlers and the dispatcher   *)
(*   SpecServerClose  the same, with handlers that go away mid-command    *)
(*   SpecErrorsFair   the server with clients whose commands are answered *)
(*                    with errors, the threads scheduled fairly           *)
(*   SpecSweeper      the server with the periodic ExpIntervalCheck       *)
(*   SpecSweeperFair  the same, ticker and dispatcher scheduled fairly    *)
(***************************************************************************)
EXTENDS Integers, Sequences, FiniteSets, TLC

VARIABLES
    \* ---- job_queue/disruptor.rs
    head_cursor,        \* Queue.head_cursor (AtomicUsize)
    tail_cursor,        \* Queue.tail_cursor (AtomicUsize)
    next_slot_cursor,   \* Queue.next_slot_cursor (AtomicUsize)
    ring,               \* Queue.ring: slot index -> Option<T>
    producer,           \* per producer thread: position in enqueue and its locals
    consumer,           \* the consumer thread: position in dequeue and its locals
    dequeued,           \* the values the dequeue calls returned, in order
    seq_item,           \* history: claimed sequence -> the item written for it
    \* ---- job_queue/deque.rs
    dq_queue,           \* Queue.queue: the VecDeque behind the mutex
    dq_mutex,           \* the mutex: 0 when free, else the thread holding it
    dq_cvar,            \* Queue.cvar: the threads parked in cvar.wait
    dq_producer,        \* per producer thread: position in enqueue
    dq_consumer,        \* the consumer thread: position in dequeue
    dq_out,             \* the values the dequeue calls returned, in order
    \* ---- core: the store and the clock
    storage,            \* Core.storage
    clock,              \* the monotonic clock (Instant::now()), in milliseconds
    last,               \* the command handled last and its response
    \* ---- server.rs
    job_queue,          \* the job queue of CommandWithSender items
    handler,            \* per connection: handle_connection's position, the
                        \* number of commands read and (history) the commands
    chan,               \* per producer: its current reply channel
    dispatcher,         \* the main thread's loop: position and locals
    socket_out,         \* per connection: the responses written to the socket
    applied,            \* history: the client commands handled, in order
    \* ---- connection/inbound.rs under handle_connection
    inbound,            \* the bytes of the connection that are not yet read
    reader              \* handle_connection's loop over CommandIter: its
                        \* position and (history) the commands it enqueued

dvars == <<head_cursor, tail_cursor, next_slot_cursor, ring, producer,
           consumer, dequeued, seq_item>>
qvars == <<dq_queue, dq_mutex, dq_cvar, dq_producer, dq_consumer, dq_out>>

cvars == <<storage, clock, last>>

svars == <<job_queue, handler, chan, dispatcher, socket_out, applied>>

ivars == <<inbound, reader>>

vars == <<dvars, qvars, cvars, svars, ivars>>

\* What the steps of one part leave alone: the variables of the other parts.
not_dvars == <<qvars, cvars, svars, ivars>>
not_qvars == <<dvars, cvars, svars, ivars>>
not_cvars == <<dvars, qvars, svars, ivars>>
not_svars == <<dvars, qvars, ivars>>
not_ivars == <<dvars, qvars, cvars, svars>>

-----------------------------------------------------------------------------
(* Option<T>: None is the empty sequence, Some(x) a one-element sequence.  *)
None == <<>>
Some(x) == <<x>>
Max(a, b) == IF a >= b THEN a ELSE b
Min(a, b) == IF a <= b THEN a ELSE b
RECURSIVE Pow2(_)
Pow2(n) == IF n = 0 THEN 1 ELSE 2 * Pow2(n - 1)
Range(s) == {s[i] : i \in 1..Len(s)}
NoDuplicates(s) == \A i, j \in 1..Len(s) : i # j => s[i] # s[j]

-----------------------------------------------------------------------------
(* job_queue/disruptor.rs                                                  *)

\* The ring holds 2^RingExponent slots (SIZE is a power of two).
RingExponent == 1
\* tests::multi_thread: two producer threads (queue_1, queue_2); producer p
\* enqueues the items (p-1)*M + 1 .. p*M in that order, and the consumer
\* calls dequeue P*M times.  The locals of a thread are cleared once dead.
NumProducers == 2
ItemsPerProducer == 2

SIZE == Pow2(RingExponent)
Producers == 1..NumProducers
TotalItems == NumProducers * ItemsPerProducer
Item(p, i) == (p - 1) * ItemsPerProducer + i
AllItems == 1..TotalItems
ProducerOf(item) == ((item - 1) \div ItemsPerProducer) + 1

\* Queue::new: exponential = log2(SIZE) as i8
RECURSIVE Log2Floor(_)
Log2Floor(n) == IF n <= 1 THEN 0 ELSE 1 + Log2Floor(n \div 2)
exponential == Log2Floor(SIZE)

\* ((1 << exponential) - 1) & sequence: the low `exponential` bits.
slot_from_sequence(sequence) == sequence % Pow2(exponential)

InitDisruptor ==
    /\ head_cursor = 0
    /\ tail_cursor = 0
    /\ next_slot_cursor = 1
    /\ ring = [s \in 0..(SIZE - 1) |-> None]
    /\ producer = [p \in Producers |->
                     [pc |-> "is_full_next", sent |-> 0, next_slot |-> 0,
                      current |-> 0, next_sequence |-> 0]]
    /\ consumer = [pc |-> "is_empty_tail", tail |-> 0, consume_sequence |-> 0]
    /\ dequeued = <<>>
    /\ seq_item = <<>>

\* is_full, first load: next_slot_cursor.load(Acquire)
IsFullLoadNextSlot(p) ==
    /\ producer[p].pc = "is_full_next"
    /\ producer' = [producer EXCEPT ![p].pc = "is_full_head",
                                    ![p].next_slot = next_slot_cursor]
    /\ UNCHANGED <<head_cursor, tail_cursor, next_slot_cursor, ring, consumer,
                   dequeued, seq_item>>
    /\ UNCHANGED not_dvars

\* is_full, second load and the comparison next_slot - head - 1 == size; the
\* spin loop of claim_sequence repeats is_full while it is true.  The
\* subtraction is on usize: when the stale next_slot is not above head it
\* underflows, which panics the thread in a build with overflow checks and
\* wraps to a huge value (not equal to size) in a build without them.
IsFullLoadHead(p) ==
    /\ producer[p].pc = "is_full_head"
    /\ LET diff == producer[p].next_slot - head_cursor - 1 IN
        \/ /\ diff >= 0
           /\ producer' = [producer EXCEPT ![p].next_slot = 0, ![p].pc =
                             IF diff = SIZE THEN "is_full_next" ELSE "claim_load"]
        \/ /\ diff < 0
           /\ \E outcome \in {"claim_load", "panicked"} :
                producer' = [producer EXCEPT ![p].next_slot = 0, ![p].pc = outcome]
    /\ UNCHANGED <<head_cursor, tail_cursor, next_slot_cursor, ring, consumer,
                   dequeued, seq_item>>
    /\ UNCHANGED not_dvars

\* claim_sequence: let current = next_slot_cursor.load(Acquire)
ClaimLoad(p) ==
    /\ producer[p].pc = "claim_load"
    /\ producer' = [producer EXCEPT ![p].pc = "claim_cas",
                                    ![p].current = next_slot_cursor]
    /\ UNCHANGED <<head_cursor, tail_cursor, next_slot_cursor, ring, consumer,
                   dequeued, seq_item>>
    /\ UNCHANGED not_dvars

\* claim_sequence: compare_exchange(current, current + 1); Ok returns the
\* sequence, Err goes round the loop (is_full again).
ClaimCas(p) ==
    /\ producer[p].pc = "claim_cas"
    /\ IF next_slot_cursor = producer[p].current
         THEN /\ next_slot_cursor' = producer[p].current + 1
              /\ producer' = [producer EXCEPT ![p].pc = "write", ![p].current = 0,
                                ![p].next_sequence = producer[p].current]
         ELSE /\ next_slot_cursor' = next_slot_cursor
              /\ producer' = [producer EXCEPT ![p].pc = "is_full_next",
                                              ![p].current = 0]
    /\ UNCHANGED <<head_cursor, tail_cursor, ring, consumer, dequeued, seq_item>>
    /\ UNCHANGED not_dvars

\* enqueue: *target_ptr = Some(item)
WriteSlot(p) ==
    /\ producer[p].pc = "write"
    /\ LET item == Item(p, producer[p].sent + 1)
           slot == slot_from_sequence(producer[p].next_sequence) IN
        /\ ring' = [ring EXCEPT ![slot] = Some(item)]
        /\ seq_item' = [s \in 1..Max(Len(seq_item), producer[p].next_sequence) |->
                          IF s = producer[p].next_sequence THEN item
                          ELSE IF s <= Len(seq_item) THEN seq_item[s] ELSE 0]
    /\ producer' = [producer EXCEPT ![p].pc = "commit"]
    /\ UNCHANGED <<head_cursor, tail_cursor, next_slot_cursor, consumer, dequeued>>
    /\ UNCHANGED not_dvars

\* A commit that stores its sequence without waiting for its predecessor
CommitWithoutWaiting(p) ==
    /\ producer[p].pc = "commit"
    /\ tail_cursor' = producer[p].next_sequence
    /\ producer' = [producer EXCEPT
                      ![p].sent = producer[p].sent + 1,
                      ![p].next_sequence = 0,
                      ![p].pc = IF producer[p].sent + 1 < ItemsPerProducer
                                  THEN "is_full_next" ELSE "done"]
    /\ UNCHANGED <<head_cursor, next_slot_cursor, ring, consumer, dequeued, seq_item>>
    /\ UNCHANGED not_dvars

\* commit: spin on compare_exchange(new_tail_cursor - 1, new_tail_cursor);
\* a failed exchange leaves the thread in the loop.  After it enqueue returns
\* and the thread goes on to its next item.
Commit(p) ==
    /\ producer[p].pc = "commit"
    /\ tail_cursor = producer[p].next_sequence - 1
    /\ tail_cursor' = producer[p].next_sequence
    /\ producer' = [producer EXCEPT
                      ![p].sent = producer[p].sent + 1,
                      ![p].next_sequence = 0,
                      ![p].pc = IF producer[p].sent + 1 < ItemsPerProducer
                                  THEN "is_full_next" ELSE "done"]
    /\ UNCHANGED <<head_cursor, next_slot_cursor, ring, consumer, dequeued, seq_item>>
    /\ UNCHANGED not_dvars

\* is_empty, first load: tail_cursor.load(Acquire)
IsEmptyLoadTail ==
    /\ consumer.pc = "is_empty_tail"
    /\ consumer' = [consumer EXCEPT !.pc = "is_empty_head", !.tail = tail_cursor]
    /\ UNCHANGED <<head_cursor, tail_cursor, next_slot_cursor, ring, producer,
                   dequeued, seq_item>>
    /\ UNCHANGED not_dvars

\* is_empty, second load and tail == head; dequeue spins while it is true.
IsEmptyLoadHead ==
    /\ consumer.pc = "is_empty_head"
    /\ consumer' = [consumer EXCEPT !.tail = 0, !.pc =
                      IF consumer.tail = head_cursor THEN "is_empty_tail"
                      ELSE "fetch_add"]
    /\ UNCHANGED <<head_cursor, tail_cursor, next_slot_cursor, ring, producer,
                   dequeued, seq_item>>
    /\ UNCHANGED not_dvars

\* dequeue: head_cursor.fetch_add(1, Release)
FetchAddHead ==
    /\ consumer.pc = "fetch_add"
    /\ head_cursor' = head_cursor + 1
    /\ consumer' = [consumer EXCEPT !.pc = "load_head"]
    /\ UNCHANGED <<tail_cursor, next_slot_cursor, ring, producer, dequeued, seq_item>>
    /\ UNCHANGED not_dvars

\* dequeue: let consume_sequence = head_cursor.load(Acquire)
LoadHead ==
    /\ consumer.pc = "load_head"
    /\ consumer' = [consumer EXCEPT !.pc = "take", !.consume_sequence = head_cursor]
    /\ UNCHANGED <<head_cursor, tail_cursor, next_slot_cursor, ring, producer,
                   dequeued, seq_item>>
    /\ UNCHANGED not_dvars

\* dequeue: (*target_ptr).take().unwrap(); unwrap of None panics.  The
\* consumer of tests::multi_thread calls dequeue once per enqueued item.
TakeSlot ==
    /\ consumer.pc = "take"
    /\ LET slot == slot_from_sequence(consumer.consume_sequence) IN
        IF ring[slot] = None
          THEN /\ consumer' = [consumer EXCEPT !.pc = "panicked"]
               /\ UNCHANGED <<ring, dequeued>>
          ELSE /\ dequeued' = Append(dequeued, ring[slot][1])
               /\ ring' = [ring EXCEPT ![slot] = None]
               /\ consumer' = [consumer EXCEPT !.consume_sequence = 0, !.pc =
                                 IF Len(dequeued) + 1 < TotalItems
                                   THEN "is_empty_tail" ELSE "done"]
    /\ UNCHANGED <<head_cursor, tail_cursor, next_slot_cursor, producer, seq_item>>
    /\ UNCHANGED not_dvars

NextDisruptor ==
    \/ \E p \in Producers : IsFullLoadNextSlot(p)
    \/ \E p \in Producers : IsFullLoadHead(p)
    \/ \E p \in Producers : ClaimLoad(p)
    \/ \E p \in Producers : ClaimCas(p)
    \/ \E p \in Producers : WriteSlot(p)
    \/ \E p \in Producers : Commit(p)
    \/ IsEmptyLoadTail
    \/ IsEmptyLoadHead
    \/ FetchAddHead
    \/ LoadHead
    \/ TakeSlot

\* The steps of one producer thread (enqueue) and of the consumer thread
\* (dequeue)
EnqueueStep(p) ==
    \/ IsFullLoadNextSlot(p)
    \/ IsFullLoadHead(p)
    \/ ClaimLoad(p)
    \/ ClaimCas(p)
    \/ WriteSlot(p)
    \/ Commit(p)
DequeueStep ==
    \/ IsEmptyLoadTail
    \/ IsEmptyLoadHead
    \/ FetchAddHead
    \/ LoadHead
    \/ TakeSlot

-----------------------------------------------------------------------------
(* job_queue/deque.rs: a VecDeque behind a Mutex, with a Condvar.  The     *)
(* threads are those of tests::multi_thread: the producers above, each     *)
(* enqueuing its items in order, and one consumer that dequeues them.      *)

ConsumerId == NumProducers + 1

\* VecDeque::push_back and VecDeque::pop_front (PopBack: a faulty
\* pop_front, which takes from the wrong end)
push_back(q, item) == Append(q, item)
PopBack(q) == [value |-> IF q = <<>> THEN None ELSE Some(q[Len(q)]),
               rest |-> IF q = <<>> THEN q ELSE SubSeq(q, 1, Len(q) - 1)]
pop_front(q) == [value |-> IF q = <<>> THEN None ELSE Some(Head(q)),
                 rest |-> IF q = <<>> THEN q ELSE Tail(q)]

InitDeque ==
    /\ dq_queue = <<>>
    /\ dq_mutex = 0
    /\ dq_cvar = {}
    /\ dq_producer = [p \in Producers |-> [pc |-> "lock", sent |-> 0]]
    /\ dq_consumer = [pc |-> "lock"]
    /\ dq_out = <<>>

\* enqueue: let mut guard = self.queue.lock().unwrap()
EnqueueLock(p) ==
    /\ dq_producer[p].pc = "lock"
    /\ dq_mutex = 0
    /\ dq_mutex' = p
    /\ dq_producer' = [dq_producer EXCEPT ![p].pc = "push_back"]
    /\ UNCHANGED <<dq_queue, dq_cvar, dq_consumer, dq_out>>
    /\ UNCHANGED not_qvars

\* enqueue: (*guard).push_back(item)
EnqueuePushBack(p) ==
    /\ dq_producer[p].pc = "push_back"
    /\ dq_queue' = push_back(dq_queue, Item(p, dq_producer[p].sent + 1))
    /\ dq_producer' = [dq_producer EXCEPT ![p].pc = "notify_one"]
    /\ UNCHANGED <<dq_mutex, dq_cvar, dq_consumer, dq_out>>
    /\ UNCHANGED not_qvars

\* Condvar::notify_one: wakes one thread parked in wait, if there is one;
\* the woken thread has to take the mutex again before wait returns.
\* (LostNotify: a faulty notify_one, which wakes nobody.)
LostNotify(cvar, cons) == [cvar |-> cvar, cons |-> cons]
notify_one(cvar, cons) ==
    IF ConsumerId \in cvar
      THEN [cvar |-> cvar \ {ConsumerId}, cons |-> [cons EXCEPT !.pc = "relock"]]
      ELSE [cvar |-> cvar, cons |-> cons]

\* enqueue: self.cvar.notify_one(), the mutex still held
EnqueueNotify(p) ==
    /\ dq_producer[p].pc = "notify_one"
    /\ LET r == notify_one(dq_cvar, dq_consumer) IN
        /\ dq_cvar' = r.cvar
        /\ dq_consumer' = r.cons
    /\ dq_producer' = [dq_producer EXCEPT ![p].pc = "unlock"]
    /\ UNCHANGED <<dq_queue, dq_mutex, dq_out>>
    /\ UNCHANGED not_qvars

\* enqueue returns: the guard is dropped, which releases the mutex; the
\* thread goes on to its next item.
EnqueueUnlock(p) ==
    /\ dq_producer[p].pc = "unlock"
    /\ dq_mutex' = 0
    /\ dq_producer' = [dq_producer EXCEPT
                         ![p].sent = dq_producer[p].sent + 1,
                         ![p].pc = IF dq_producer[p].sent + 1 < ItemsPerProducer
                                     THEN "lock" ELSE "done"]
    /\ UNCHANGED <<dq_queue, dq_cvar, dq_consumer, dq_out>>
    /\ UNCHANGED not_qvars

\* dequeue: self.queue.lock(), and the re-acquisition of the mutex inside
\* cvar.wait after a wake-up
DequeueLock ==
    /\ dq_consumer.pc \in {"lock", "relock"}
    /\ dq_mutex = 0
    /\ dq_mutex' = ConsumerId
    /\ dq_consumer' = [dq_consumer EXCEPT !.pc = "pop_front"]
    /\ UNCHANGED <<dq_queue, dq_cvar, dq_producer, dq_out>>
    /\ UNCHANGED not_qvars

\* dequeue: match guard.pop_front(): Some(value) => return value (the guard
\* is dropped); None => cvar.wait(guard), which releases the mutex and parks
\* the thread in one step.  The test's consumer calls dequeue once per item.
DequeuePopFront ==
    /\ dq_consumer.pc = "pop_front"
    /\ LET r == pop_front(dq_queue) IN
        IF r.value = None
          THEN /\ dq_cvar' = dq_cvar \cup {ConsumerId}
               /\ dq_consumer' = [dq_consumer EXCEPT !.pc = "wait"]
               /\ UNCHANGED <<dq_queue, dq_out>>
          ELSE /\ dq_queue' = r.rest
               /\ dq_out' = Append(dq_out, r.value[1])
               /\ dq_consumer' = [dq_consumer EXCEPT !.pc =
                                    IF Len(dq_out) + 1 < TotalItems
                                      THEN "lock" ELSE "done"]
               /\ UNCHANGED dq_cvar
    /\ dq_mutex' = 0
    /\ UNCHANGED dq_producer
    /\ UNCHANGED not_qvars

\* Condvar::wait may return without a notification (a spurious wake-up).
SpuriousWakeup ==
    /\ dq_consumer.pc = "wait"
    /\ dq_cvar' = dq_cvar \ {ConsumerId}
    /\ dq_consumer' = [dq_consumer EXCEPT !.pc = "relock"]
    /\ UNCHANGED <<dq_queue, dq_mutex, dq_producer, dq_out>>
    /\ UNCHANGED not_qvars

DequeProducerStep(p) ==
    \/ EnqueueLock(p)
    \/ EnqueuePushBack(p)
    \/ EnqueueNotify(p)
    \/ EnqueueUnlock(p)

DequeConsumerStep ==
    \/ DequeueLock
    \/ DequeuePopFront

NextDeque ==
    \/ \E p \in Producers : EnqueueLock(p)
    \/ \E p \in Producers : EnqueuePushBack(p)
    \/ \E p \in Producers : EnqueueNotify(p)
    \/ \E p \in Producers : EnqueueUnlock(p)
    \/ DequeueLock
    \/ DequeuePopFront
    \/ SpuriousWakeup

-----------------------------------------------------------------------------
(* core/storage.rs: Storage as a value [hash_map, key_expiration_queue].   *)
(* An Instant is a number of milliseconds; `now` is what Instant::now()    *)
(* returns during the command at hand.  A byte string is a sequence of     *)
(* one-character strings.                                                  *)

\* enum StorageValue (core/storage.rs, lines 9-13)
String(bytes) == [kind |-> "String", bytes |-> bytes]
Integer(n) == [kind |-> "Integer", int |-> n]
List(items) == [kind |-> "List", list |-> items]
\* ValueWithExpiration(value, Option<Instant>)
ValueWithExpiration(value, exp) == [value |-> value, exp |-> exp]
\* KeyWithExpiration(key, instant)
KeyWithExpiration(key, exp) == [key |-> key, exp |-> exp]

\* Storage::new
EmptyMap == [x \in {} |-> None]
StorageNew == [hash_map |-> EmptyMap, key_expiration_queue |-> <<>>]

\* HashMap::insert and HashMap::remove
MapInsert(hm, key, entry) ==
    [x \in (DOMAIN hm) \cup {key} |-> IF x = key THEN entry ELSE hm[x]]
MapRemove(hm, key) == [x \in (DOMAIN hm) \ {key} |-> hm[x]]

\* BinaryHeap<KeyWithExpiration>: Ord is inverted on the instant, so the
\* greatest element, the one peek and pop give, has the smallest instant.
\* The heap is kept as the sequence of its elements in pop order.
HeapPush(heap, item) ==
    LET before == {i \in 1..Len(heap) : heap[i].exp <= item.exp}
        n == Cardinality(before) IN
    SubSeq(heap, 1, n) \o <<item>> \o SubSeq(heap, n + 1, Len(heap))
HeapPeek(heap) == IF heap = <<>> THEN None ELSE Some(Head(heap))
HeapPop(heap) == Tail(heap)

\* Storage::get_raw and Storage::get_raw_mut (the same match)
get_raw(st, now, key) ==
    IF key \notin DOMAIN st.hash_map THEN None
    ELSE IF st.hash_map[key].exp # None /\ st.hash_map[key].exp[1] > now THEN None
    ELSE Some(st.hash_map[key].value)

\* Result<_, StorageError>: err is "" for Ok
Ok(value) == [err |-> "", value |-> value]
Err(error) == [err |-> error, value |-> None]

\* Storage::get
get(st, now, key) ==
    LET raw == get_raw(st, now, key) IN
    IF raw = None THEN Ok(None)
    ELSE IF raw[1].kind \in {"String", "Integer"} THEN Ok(raw)
    ELSE Err("WrongOperationType")

\* A faulty set, which keeps the expiration of the entry it overwrites
SetKeepsExpiration(st, key, value) ==
    [st EXCEPT !.hash_map =
        MapInsert(st.hash_map, key,
                  ValueWithExpiration(value, IF key \in DOMAIN st.hash_map
                                               THEN st.hash_map[key].exp ELSE None))]
\* Storage::set
set(st, key, value) ==
    [st EXCEPT !.hash_map = MapInsert(st.hash_map, key, ValueWithExpiration(value, None))]

\* A faulty incr, which answers the sum without storing it
IncrLostUpdate(st, now, key, inc) ==
    LET raw == get_raw(st, now, key) IN
    IF raw = None
      THEN [st |-> set(st, key, Integer(1)), result |-> Ok(1)]
    ELSE IF raw[1].kind = "Integer"
      THEN [st |-> st, result |-> Ok(raw[1].int + inc)]
    ELSE [st |-> st, result |-> Err("NotInteger")]
\* Storage::incr: [st, result]
incr(st, now, key, inc) ==
    LET raw == get_raw(st, now, key) IN
    IF raw = None
      THEN [st |-> set(st, key, Integer(1)), result |-> Ok(1)]
    ELSE IF raw[1].kind = "Integer"
      THEN [st |-> [st EXCEPT !.hash_map[key].value = Integer(raw[1].int + inc)],
            result |-> Ok(raw[1].int + inc)]
    ELSE [st |-> st, result |-> Err("NotInteger")]

Reverse(s) == [i \in 1..Len(s) |-> s[Len(s) + 1 - i]]

\* Two faulty push: one does not reverse the values of a new list, one
\* answers the number of values pushed instead of the length of the list
PushWithoutReverse(st, now, key, values, list_end) ==
    LET raw == get_raw(st, now, key) IN
    IF raw = None
      THEN [st |-> set(st, key, List(values)), result |-> Ok(Len(values))]
    ELSE IF raw[1].kind = "List"
      THEN LET list == IF list_end = "Front"
                         THEN Reverse(values) \o raw[1].list
                         ELSE raw[1].list \o values IN
           [st |-> [st EXCEPT !.hash_map[key].value = List(list)],
            result |-> Ok(Len(list))]
    ELSE [st |-> st, result |-> Err("WrongOperationType")]
PushAnswersCountPushed(st, now, key, values, list_end) ==
    LET raw == get_raw(st, now, key) IN
    IF raw = None
      THEN [st |-> set(st, key,
                       List(IF list_end = "Front" THEN Reverse(values) ELSE values)),
            result |-> Ok(Len(values))]
    ELSE IF raw[1].kind = "List"
      THEN LET list == IF list_end = "Front"
                         THEN Reverse(values) \o raw[1].list
                         ELSE raw[1].list \o values IN
           [st |-> [st EXCEPT !.hash_map[key].value = List(list)],
            result |-> Ok(Len(values))]
    ELSE [st |-> st, result |-> Err("WrongOperationType")]
\* Storage::push: [st, result]; list_end is "Front" or "Back"
push(st, now, key, values, list_end) ==
    LET raw == get_raw(st, now, key) IN
    IF raw = None
      THEN [st |-> set(st, key,
                       List(IF list_end = "Front" THEN Reverse(values) ELSE values)),
            result |-> Ok(Len(values))]
    ELSE IF raw[1].kind = "List"
      THEN LET list == IF list_end = "Front"
                         THEN Reverse(values) \o raw[1].list
                         ELSE raw[1].list \o values IN
           [st |-> [st EXCEPT !.hash_map[key].value = List(list)],
            result |-> Ok(Len(list))]
    ELSE [st |-> st, result |-> Err("WrongOperationType")]

\* Storage::pop: [st, result]; the result is None or Some(values)
pop(st, now, key, count, list_end) ==
    LET raw == get_raw(st, now, key) IN
    IF raw = None THEN [st |-> st, result |-> Ok(None)]
    ELSE IF raw[1].kind = "List"
      THEN LET list == raw[1].list
               n == Min(count, Len(list))
               values == IF list_end = "Front" THEN SubSeq(list, 1, n)
                         ELSE Reverse(SubSeq(list, Len(list) - n + 1, Len(list)))
               rest == IF list_end = "Front" THEN SubSeq(list, n + 1, Len(list))
                       ELSE SubSeq(list, 1, Len(list) - n) IN
           [st |-> [st EXCEPT !.hash_map[key].value = List(rest)],
            result |-> Ok(IF values = <<>> THEN None ELSE Some(values))]
    ELSE [st |-> st, result |-> Err("WrongOperationType")]

\* A faulty delete, which reports a removal whether or not the key was there
DeleteAlwaysTrue(st, key) ==
    [st |-> [st EXCEPT !.hash_map = MapRemove(st.hash_map, key)], removed |-> TRUE]
\* Storage::delete: [st, removed]
delete(st, key) ==
    [st |-> [st EXCEPT !.hash_map = MapRemove(st.hash_map, key)],
     removed |-> key \in DOMAIN st.hash_map]

\* Storage::is_exist
is_exist(st, key) == key \in DOMAIN st.hash_map

\* Two faulty is_expire: one never finds a key expired, one always does
IsExpireNever(st, now, key) ==
    IF key \notin DOMAIN st.hash_map THEN None ELSE Some(FALSE)
IsExpireAlways(st, now, key) ==
    IF key \notin DOMAIN st.hash_map THEN None ELSE Some(TRUE)
\* Storage::is_expire: Option<bool>
is_expire(st, now, key) ==
    IF key \notin DOMAIN st.hash_map THEN None
    ELSE IF st.hash_map[key].exp # None /\ st.hash_map[key].exp[1] <= now THEN Some(TRUE)
    ELSE Some(FALSE)

\* A faulty expire, which does not push on the expiration heap
ExpireWithoutHeapEntry(st, now, key, ttl) ==
    [hash_map |-> IF key \in DOMAIN st.hash_map
                    THEN [st.hash_map EXCEPT ![key].exp = Some(now + ttl)]
                    ELSE st.hash_map,
     key_expiration_queue |-> st.key_expiration_queue]
\* Storage::expire; ttl is in milliseconds
expire(st, now, key, ttl) ==
    LET exp == now + ttl IN
    [hash_map |-> IF key \in DOMAIN st.hash_map
                    THEN [st.hash_map EXCEPT ![key].exp = Some(exp)]
                    ELSE st.hash_map,
     key_expiration_queue |-> HeapPush(st.key_expiration_queue, KeyWithExpiration(key, exp))]

\* Duration::as_secs of Instant::duration_since, which is zero when the
\* instant is not after now
MsPerSec == 1000
DurationSinceSecs(exp, now) == IF exp > now THEN (exp - now) \div MsPerSec ELSE 0

\* Storage::ttl
ttl(st, now, key) ==
    IF key \notin DOMAIN st.hash_map THEN -2
    ELSE IF st.hash_map[key].exp = None THEN -1
    ELSE DurationSinceSecs(st.hash_map[key].exp[1], now)

\* Storage::scan_expired_keys: [st, keys], the loop as a recursion on the heap
RECURSIVE ScanLoop(_, _, _)
ScanLoop(heap, now, keys) ==
    LET top == HeapPeek(heap) IN
    IF top = None THEN [heap |-> heap, keys |-> keys]
    ELSE IF top[1].exp > now THEN [heap |-> heap, keys |-> keys]
    ELSE ScanLoop(HeapPop(heap), now, Append(keys, top[1].key))
scan_expired_keys(st, now) ==
    LET r == ScanLoop(st.key_expiration_queue, now, <<>>) IN
    [st |-> [st EXCEPT !.key_expiration_queue = r.heap], keys |-> r.keys]

-----------------------------------------------------------------------------
(* core/mod.rs: Command, CommandResponse and Core::handle_command, as an   *)
(* operator from (storage, now, command) to [st, resp].                    *)

\* enum Command (core/mod.rs, lines 6-35), one constructor per variant
Del(keys) == [op |-> "Del", keys |-> keys]
Expire(key, ttl_secs) == [op |-> "Expire", key |-> key, ttl |-> ttl_secs]
Ttl(key) == [op |-> "Ttl", key |-> key]
Exists(keys) == [op |-> "Exists", keys |-> keys]
Flush == [op |-> "Flush"]
Get(key) == [op |-> "Get", key |-> key]
Set(key, value) == [op |-> "Set", key |-> key, value |-> value]
SetNx(key, value) == [op |-> "SetNx", key |-> key, value |-> value]
GetSet(key, value) == [op |-> "GetSet", key |-> key, value |-> value]
GetDel(key) == [op |-> "GetDel", key |-> key]
MGet(keys) == [op |-> "MGet", keys |-> keys]
MSet(keys, values) == [op |-> "MSet", keys |-> keys, values |-> values]
Incr(key) == [op |-> "Incr", key |-> key]
Decr(key) == [op |-> "Decr", key |-> key]
IncrBy(key, value) == [op |-> "IncrBy", key |-> key, value |-> value]
DecrBy(key, value) == [op |-> "DecrBy", key |-> key, value |-> value]
LPush(key, values) == [op |-> "LPush", key |-> key, values |-> values]
RPush(key, values) == [op |-> "RPush", key |-> key, values |-> values]
LPop(key, count) == [op |-> "LPop", key |-> key, count |-> count]
RPop(key, count) == [op |-> "RPop", key |-> key, count |-> count]
ExpIntervalCheck == [op |-> "ExpIntervalCheck"]

\* enum CommandResponse (core/mod.rs, lines 38-46)
SimpleString(bytes) == [kind |-> "SimpleString", bytes |-> bytes]
BulkString(bytes) == [kind |-> "BulkString", bytes |-> bytes]
IntegerResponse(n) == [kind |-> "Integer", int |-> n]
Array(items) == [kind |-> "Array", items |-> items]
Error(msg) == [kind |-> "Error", msg |-> msg]
Null == [kind |-> "Null"]
NullArray == [kind |-> "NullArray"]
OK == SimpleString(<<"O", "K">>)

WRONGTYPE == "WRONGTYPE Operation against a key holding the wrong kind of value"
NOTINTEGER == "ERR value is not an integer or out of range"

\* Core::translate_error
translate_error(error) ==
    IF error = "WrongOperationType" THEN Error(WRONGTYPE) ELSE Error(NOTINTEGER)

\* isize::to_string and str::parse::<isize> on byte strings
Digits == <<"0", "1", "2", "3", "4", "5", "6", "7", "8", "9">>
DigitValue(c) == (CHOOSE i \in 1..10 : Digits[i] = c) - 1
IsDigit(c) == \E i \in 1..10 : Digits[i] = c
RECURSIVE NatToString(_)
NatToString(n) ==
    IF n < 10 THEN <<Digits[n + 1]>> ELSE NatToString(n \div 10) \o <<Digits[(n % 10) + 1]>>
to_string(n) == IF n < 0 THEN <<"-">> \o NatToString(-n) ELSE NatToString(n)
RECURSIVE DigitsToNat(_, _)
DigitsToNat(bytes, acc) ==
    IF bytes = <<>> THEN acc
    ELSE DigitsToNat(Tail(bytes), 10 * acc + DigitValue(Head(bytes)))
\* Option<isize>: an optional sign and at least one digit, nothing else
parse_isize(bytes) ==
    LET signed == bytes # <<>> /\ Head(bytes) \in {"-", "+"}
        digits == IF signed THEN Tail(bytes) ELSE bytes IN
    IF digits = <<>> \/ \E i \in 1..Len(digits) : ~IsDigit(digits[i]) THEN None
    ELSE IF signed /\ Head(bytes) = "-" THEN Some(-DigitsToNat(digits, 0))
    ELSE Some(DigitsToNat(digits, 0))

\* Core::get
CoreGet(st, now, key) ==
    LET r == get(st, now, key) IN
    IF r.err # "" THEN translate_error(r.err)
    ELSE IF r.value = None THEN Null
    ELSE IF r.value[1].kind = "String" THEN SimpleString(r.value[1].bytes)
    ELSE IF r.value[1].kind = "Integer" THEN IntegerResponse(r.value[1].int)
    ELSE Error(WRONGTYPE)

\* ExpIntervalCheck: for key in scan_expired_keys() { if let Some(true) =
\* is_expire(&key) { delete(&key) } }
RECURSIVE SweepKeys(_, _, _)
SweepKeys(st, now, keys) ==
    IF keys = <<>> THEN st
    ELSE SweepKeys(IF is_expire(st, now, Head(keys)) = Some(TRUE)
                     THEN delete(st, Head(keys)).st ELSE st,
                   now, Tail(keys))
HandleExpIntervalCheck(st, now) ==
    LET scan == scan_expired_keys(st, now) IN
    [st |-> SweepKeys(scan.st, now, scan.keys), resp |-> Null]

\* Del: keys.into_iter().filter(|key| delete(key)).count()
RECURSIVE DeleteAll(_, _, _)
DeleteAll(st, keys, count) ==
    IF keys = <<>> THEN [st |-> st, count |-> count]
    ELSE LET d == delete(st, Head(keys)) IN
         DeleteAll(d.st, Tail(keys), count + (IF d.removed THEN 1 ELSE 0))
HandleDel(st, keys) ==
    LET r == DeleteAll(st, keys, 0) IN [st |-> r.st, resp |-> IntegerResponse(r.count)]

\* Expire
HandleExpire(st, now, key, ttl_secs) ==
    IF is_exist(st, key)
      THEN [st |-> expire(st, now, key, ttl_secs * MsPerSec), resp |-> IntegerResponse(1)]
      ELSE [st |-> st, resp |-> IntegerResponse(0)]

\* Flush: self.storage = Storage::new()
FlushKeepsHeap(st) ==
    [st |-> [st EXCEPT !.hash_map = EmptyMap], resp |-> OK]
HandleFlush(st) == [st |-> StorageNew, resp |-> OK]

\* Exists: keys.into_iter().filter(|key| is_exist(key)).count()
HandleExists(st, keys) ==
    [st |-> st,
     resp |-> IntegerResponse(Cardinality({i \in 1..Len(keys) : is_exist(st, keys[i])}))]

\* SetNx
HandleSetNx(st, now, key, value) ==
    LET r == get(st, now, key) IN
    IF r.err # "" THEN [st |-> st, resp |-> translate_error(r.err)]
    ELSE IF r.value # None THEN [st |-> st, resp |-> IntegerResponse(0)]
    ELSE [st |-> set(st, key, String(value)), resp |-> IntegerResponse(1)]

\* GetSet and GetDel share one arm; operator is "GET" for GetSet, "DEL" for GetDel
HandleGetSetDel(st, now, operator, key, value) ==
    LET r == get(st, now, key)
        after == IF operator = "GET" THEN set(st, key, String(value))
                 ELSE delete(st, key).st IN
    IF r.err # "" THEN [st |-> st, resp |-> translate_error(r.err)]
    ELSE IF r.value = None THEN [st |-> after, resp |-> Null]
    ELSE IF r.value[1].kind = "String"
      THEN [st |-> after, resp |-> BulkString(r.value[1].bytes)]
    ELSE IF r.value[1].kind = "Integer"
      THEN [st |-> after, resp |-> BulkString(to_string(r.value[1].int))]
    ELSE [st |-> st, resp |-> Error(WRONGTYPE)]

\* A faulty MSet, which takes the values from the back (values.pop())
RECURSIVE SetAllFromBack(_, _, _)
SetAllFromBack(st, keys, values) ==
    IF keys = <<>> THEN st
    ELSE SetAllFromBack(set(st, Head(keys), String(values[Len(values)])),
                        Tail(keys), SubSeq(values, 1, Len(values) - 1))
\* MSet: for each key, values.remove(0) and set
RECURSIVE SetAll(_, _, _)
SetAll(st, keys, values) ==
    IF keys = <<>> THEN st
    ELSE SetAll(set(st, Head(keys), String(Head(values))), Tail(keys), Tail(values))

\* Incr, Decr, IncrBy, DecrBy after the delta is known
HandleIncr(st, now, key, delta) ==
    LET r == incr(st, now, key, delta) IN
    IF r.result.err # "" THEN [st |-> r.st, resp |-> translate_error(r.result.err)]
    ELSE [st |-> r.st, resp |-> IntegerResponse(r.result.value)]
HandleIncrBy(st, now, key, value, negative) ==
    LET parsed == parse_isize(value) IN
    IF parsed = None THEN [st |-> st, resp |-> Error(NOTINTEGER)]
    ELSE HandleIncr(st, now, key, IF negative THEN -parsed[1] ELSE parsed[1])

\* LPush / RPush
HandlePush(st, now, key, values, list_end) ==
    LET r == push(st, now, key, values, list_end) IN
    IF r.result.err # "" THEN [st |-> r.st, resp |-> translate_error(r.result.err)]
    ELSE [st |-> r.st, resp |-> IntegerResponse(r.result.value)]

\* LPop / RPop
HandlePop(st, now, key, count, list_end) ==
    LET r == pop(st, now, key, count, list_end) IN
    IF r.result.err # "" THEN [st |-> r.st, resp |-> translate_error(r.result.err)]
    ELSE IF r.result.value = None THEN [st |-> r.st, resp |-> Null]
    ELSE [st |-> r.st,
          resp |-> Array([i \in 1..Len(r.result.value[1]) |->
                            BulkString(r.result.value[1][i])])]

\* Core::handle_command
handle_command(st, now, command) ==
    CASE command.op = "ExpIntervalCheck" -> HandleExpIntervalCheck(st, now)
      [] command.op = "Del" -> HandleDel(st, command.keys)
      [] command.op = "Expire" -> HandleExpire(st, now, command.key, command.ttl)
      [] command.op = "Ttl" ->
            [st |-> st, resp |-> IntegerResponse(ttl(st, now, command.key))]
      [] command.op = "Exists" -> HandleExists(st, command.keys)
      [] command.op = "Flush" -> HandleFlush(st)
      [] command.op = "Get" -> [st |-> st, resp |-> CoreGet(st, now, command.key)]
      [] command.op = "Set" ->
            [st |-> set(st, command.key, String(command.value)), resp |-> OK]
      [] command.op = "SetNx" -> HandleSetNx(st, now, command.key, command.value)
      [] command.op = "GetSet" ->
            HandleGetSetDel(st, now, "GET", command.key, command.value)
      [] command.op = "GetDel" -> HandleGetSetDel(st, now, "DEL", command.key, <<>>)
      [] command.op = "MGet" ->
            [st |-> st,
             resp |-> Array([i \in 1..Len(command.keys) |->
                               CoreGet(st, now, command.keys[i])])]
      [] command.op = "MSet" ->
            [st |-> SetAll(st, command.keys, command.values), resp |-> OK]
      [] command.op = "Incr" -> HandleIncr(st, now, command.key, 1)
      [] command.op = "Decr" -> HandleIncr(st, now, command.key, -1)
      [] command.op = "IncrBy" ->
            HandleIncrBy(st, now, command.key, command.value, FALSE)
      [] command.op = "DecrBy" ->
            HandleIncrBy(st, now, command.key, command.value, TRUE)
      [] command.op = "LPush" -> HandlePush(st, now, command.key, command.values, "Front")
      [] command.op = "RPush" -> HandlePush(st, now, command.key, command.values, "Back")
      [] command.op = "LPop" -> HandlePop(st, now, command.key, command.count, "Front")
      [] command.op = "RPop" -> HandlePop(st, now, command.key, command.count, "Back")

-----------------------------------------------------------------------------
(* The store under a stream of commands and a running clock: at each step  *)
(* Core::handle_command handles one command, or time passes.               *)

Keys == {"k1", "k2"}
\* EXPIRE is given 0..MaxTtl seconds; the clock runs for MaxTicks half
\* seconds; commands that push on the expiration heap are given while it
\* holds fewer than MaxHeap entries.
MaxTtl == 1
MaxTicks == 3
MaxHeap == 2
TickMs == MsPerSec \div 2

NoCommand == [op |-> "None"]
InitCore ==
    /\ storage = StorageNew
    /\ clock = 0
    /\ last = [cmd |-> NoCommand, resp |-> Null, scanned |-> <<>>]

\* The dispatcher's call core.handle_command(command).  `last` keeps the
\* command and its response, and for ExpIntervalCheck the keys that
\* scan_expired_keys returned to the loop.
Handle(command) ==
    LET r == handle_command(storage, clock, command) IN
    /\ storage' = r.st
    /\ last' = [cmd |-> command, resp |-> r.resp,
                scanned |-> IF command.op = "ExpIntervalCheck"
                              THEN scan_expired_keys(storage, clock).keys ELSE <<>>]
    /\ UNCHANGED clock
    /\ UNCHANGED not_cvars

\* Time passes between two commands.
Tick ==
    /\ clock < MaxTicks * TickMs
    /\ clock' = clock + TickMs
    /\ last' = [cmd |-> NoCommand, resp |-> Null, scanned |-> <<>>]
    /\ UNCHANGED storage
    /\ UNCHANGED not_cvars

\* One step per command (the second conjunct only names the step).
DoSet == \E k \in Keys : Handle(Set(k, <<"a">>)) /\ last'.cmd.op = "Set"
DoSetNx == \E k \in Keys : Handle(SetNx(k, <<"a">>)) /\ last'.cmd.op = "SetNx"
DoGet == \E k \in Keys : Handle(Get(k)) /\ last'.cmd.op = "Get"
DoExpire ==
    /\ Len(storage.key_expiration_queue) < MaxHeap
    /\ \E k \in Keys, t \in 0..MaxTtl : Handle(Expire(k, t))
DoTtl == \E k \in Keys : Handle(Ttl(k)) /\ last'.cmd.op = "Ttl"
DoExists == \E k \in Keys : Handle(Exists(<<k>>)) /\ last'.cmd.op = "Exists"
DoDel == \E k \in Keys : Handle(Del(<<k>>)) /\ last'.cmd.op = "Del"
DoFlush == Handle(Flush) /\ last'.cmd.op = "Flush"
DoExpIntervalCheck == Handle(ExpIntervalCheck) /\ last'.cmd.op = "ExpIntervalCheck"

NextStore ==
    \/ DoSet
    \/ DoSetNx
    \/ DoGet
    \/ DoExpire
    \/ DoTtl
    \/ DoExists
    \/ DoDel
    \/ DoFlush
    \/ DoExpIntervalCheck
    \/ Tick

-----------------------------------------------------------------------------
(* connection/outbound.rs: encode, from a CommandResponse to the bytes of  *)
(* its RESP form.  An error message is kept as one chunk of bytes.         *)

CRLF == <<"\r", "\n">>

RECURSIVE encode(_)
RECURSIVE EncodeItems(_)
\* the Array arm's loop: for item in items { vec.append(encode(item)) }
EncodeItems(items) ==
    IF items = <<>> THEN <<>> ELSE encode(Head(items)) \o EncodeItems(Tail(items))
\* encode with the BulkString arm leaving out the bytes after the payload
EncodeBulkWithoutTrailer(response) ==
    CASE response.kind = "SimpleString" -> <<"+">> \o response.bytes \o CRLF
      [] response.kind = "BulkString" ->
            <<"$">> \o to_string(Len(response.bytes)) \o CRLF \o response.bytes
      [] response.kind = "Integer" -> <<":">> \o to_string(response.int) \o CRLF
      [] response.kind = "Error" -> <<"-", response.msg>> \o CRLF
      [] response.kind = "Null" -> <<"$", "-", "1">> \o CRLF
      [] response.kind = "Array" ->
            <<"*">> \o to_string(Len(response.items)) \o CRLF \o EncodeItems(response.items)
      [] response.kind = "NullArray" -> <<"*", "-", "1">> \o CRLF
encode(response) ==
    CASE response.kind = "SimpleString" -> <<"+">> \o response.bytes \o CRLF
      [] response.kind = "BulkString" ->
            <<"$">> \o to_string(Len(response.bytes)) \o CRLF \o response.bytes \o CRLF
      [] response.kind = "Integer" -> <<":">> \o to_string(response.int) \o CRLF
      [] response.kind = "Error" -> <<"-", response.msg>> \o CRLF
      [] response.kind = "Null" -> <<"$", "-", "1">> \o CRLF
      [] response.kind = "Array" ->
            <<"*">> \o to_string(Len(response.items)) \o CRLF \o EncodeItems(response.items)
      [] response.kind = "NullArray" -> <<"*", "-", "1">> \o CRLF

-----------------------------------------------------------------------------
(* server.rs: one handle_connection thread per connection, the job queue   *)
(* (job_queue::deque::Queue, whose enqueue and dequeue each run under its  *)
(* mutex), and the dispatcher loop of Server::start on the main thread.    *)
(* The ticker that enqueues ExpIntervalCheck is modelled from the          *)
(* specification's description of it.                                      *)

\* The connection handlers are the producers of the job queue.
NumConnections == NumProducers
Connections == 1..NumConnections
TickerId == 0
\* Each connection sends at most CommandsPerConn commands.
CommandsPerConn == 2
\* What CommandIter yields on a connection
ClientCommands == {Incr("k1")} \cup {Expire("k1", t) : t \in 0..MaxTtl}

\* struct CommandWithSender(Command, Sender<Vec<u8>>); a Sender is named by
\* the thread that made the channel and the channel's number on that thread
CommandWithSender(command, sender) == [command |-> command, sender |-> sender]
Sender(c, n) == [conn |-> c, n |-> n]

\* mpsc::channel(): the messages sent and not yet received, and whether
\* the Receiver is still alive
channel(n) == [n |-> n, buf |-> <<>>, rx |-> TRUE]
NoChannel == [n |-> 0, buf |-> <<>>, rx |-> FALSE]

\* A faulty send, which delivers to the channel of connection 1
SendToFirst(ch, sender, bytes) ==
    [ok |-> TRUE, chan |-> [ch EXCEPT ![1].buf = Append(@, bytes)]]
\* Sender::send: Err(SendError) when the Receiver has been dropped
send(ch, sender, bytes) ==
    IF ch[sender.conn].n = sender.n /\ ch[sender.conn].rx
      THEN [ok |-> TRUE, chan |-> [ch EXCEPT ![sender.conn].buf = Append(@, bytes)]]
      ELSE [ok |-> FALSE, chan |-> ch]

InitServer ==
    /\ job_queue = <<>>
    /\ handler = [c \in Connections \cup {TickerId} |->
                    [pc |-> IF c = TickerId THEN "sleep" ELSE "read", n |-> 0,
                     commands |-> <<>>]]
    /\ chan = [c \in Connections \cup {TickerId} |-> NoChannel]
    /\ dispatcher = [pc |-> "dequeue", item |-> None]
    /\ socket_out = [c \in Connections |-> <<>>]
    /\ applied = <<>>

\* handle_connection: command_iter yields the next command; the handler
\* makes a channel and enqueues the command with the channel's Sender.
HandlerEnqueue(c) ==
    /\ handler[c].pc = "read"
    /\ handler[c].n < CommandsPerConn
    /\ \E command \in ClientCommands :
          /\ job_queue' = push_back(job_queue,
                                    CommandWithSender(command, Sender(c, handler[c].n + 1)))
          /\ handler' = [handler EXCEPT ![c] =
                            [pc |-> "recv", n |-> @.n + 1,
                             commands |-> Append(@.commands, command)]]
    /\ chan' = [chan EXCEPT ![c] = channel(handler[c].n + 1)]
    /\ UNCHANGED <<dispatcher, socket_out, applied>>
    /\ UNCHANGED <<cvars, not_svars>>

\* A handler that ends its loop when the response it wrote is an error
HandlerReplyEndsOnError(c) ==
    /\ handler[c].pc = "recv"
    /\ chan[c].buf # <<>>
    /\ socket_out' = [socket_out EXCEPT ![c] = Append(@, Head(chan[c].buf))]
    /\ chan' = [chan EXCEPT ![c] = [n |-> @.n, buf |-> Tail(@.buf), rx |-> FALSE]]
    /\ handler' = [handler EXCEPT ![c].pc =
                        IF Head(Head(chan[c].buf)) = "-" THEN "gone" ELSE "read"]
    /\ UNCHANGED <<job_queue, dispatcher, applied>>
    /\ UNCHANGED <<cvars, not_svars>>

\* handle_connection: rx.recv() returns the response, write_all writes it
\* to the socket, and the loop body ends, which drops rx.
HandlerReply(c) ==
    /\ handler[c].pc = "recv"
    /\ chan[c].buf # <<>>
    /\ socket_out' = [socket_out EXCEPT ![c] = Append(@, Head(chan[c].buf))]
    /\ chan' = [chan EXCEPT ![c] = [n |-> @.n, buf |-> Tail(@.buf), rx |-> FALSE]]
    /\ handler' = [handler EXCEPT ![c].pc = "read"]
    /\ UNCHANGED <<job_queue, dispatcher, applied>>
    /\ UNCHANGED <<cvars, not_svars>>

\* The handler of a connection goes away while its command is in flight,
\* and its Receiver with it.
HandlerGone(c) ==
    /\ handler[c].pc = "recv"
    /\ chan' = [chan EXCEPT ![c].rx = FALSE]
    /\ handler' = [handler EXCEPT ![c].pc = "gone"]
    /\ UNCHANGED <<job_queue, dispatcher, socket_out, applied>>
    /\ UNCHANGED <<cvars, not_svars>>

\* Server::start, main thread: job_queue.dequeue(), which blocks while the
\* queue is empty
DispatcherDequeue ==
    /\ dispatcher.pc = "dequeue"
    /\ job_queue # <<>>
    /\ job_queue' = pop_front(job_queue).rest
    /\ dispatcher' = [pc |-> "respond", item |-> pop_front(job_queue).value]
    /\ UNCHANGED <<handler, chan, socket_out, applied>>
    /\ UNCHANGED <<cvars, not_svars>>

\* Server::start, main thread: core.handle_command(command),
\* outbound::encode(response) and sender.send(response_bytes).unwrap(),
\* which panics when send returns Err.
DispatcherRespond ==
    /\ dispatcher.pc = "respond"
    /\ LET command == dispatcher.item[1].command
           sender == dispatcher.item[1].sender
           r == handle_command(storage, clock, command)
           response_bytes == encode(r.resp)
           sent == send(chan, sender, response_bytes) IN
       /\ storage' = r.st
       /\ last' = [cmd |-> command, resp |-> r.resp,
                   scanned |-> IF command.op = "ExpIntervalCheck"
                                 THEN scan_expired_keys(storage, clock).keys ELSE <<>>]
       /\ chan' = sent.chan
       /\ dispatcher' = [pc |-> IF sent.ok THEN "dequeue" ELSE "panicked",
                         item |-> None]
       /\ applied' = IF sender.conn \in Connections
                       THEN Append(applied, [sender |-> sender, command |-> command,
                                             now |-> clock, resp |-> r.resp])
                       ELSE applied
    /\ UNCHANGED <<job_queue, handler, socket_out, clock>>
    /\ UNCHANGED not_svars

\* The ticker: after its sleep it enqueues ExpIntervalCheck on the job
\* queue, with the Sender of a channel whose Receiver it keeps.
TickerEnqueue ==
    /\ handler[TickerId].pc = "sleep"
    /\ job_queue' = push_back(job_queue,
                              CommandWithSender(ExpIntervalCheck, Sender(TickerId, 1)))
    /\ chan' = [chan EXCEPT ![TickerId] = channel(1)]
    /\ handler' = [handler EXCEPT ![TickerId].pc = "wait"]
    /\ UNCHANGED <<dispatcher, socket_out, applied>>
    /\ UNCHANGED <<cvars, not_svars>>

\* The ticker takes the reply to its command and goes back to sleep.
TickerWake ==
    /\ handler[TickerId].pc = "wait"
    /\ chan[TickerId].buf # <<>>
    /\ chan' = [chan EXCEPT ![TickerId].buf = <<>>]
    /\ handler' = [handler EXCEPT ![TickerId].pc = "sleep"]
    /\ UNCHANGED <<job_queue, dispatcher, socket_out, applied>>
    /\ UNCHANGED <<cvars, not_svars>>

NextServer ==
    \/ \E c \in Connections : HandlerEnqueue(c)
    \/ \E c \in Connections : HandlerReply(c)
    \/ DispatcherDequeue
    \/ DispatcherRespond

NextServerClose ==
    \/ \E c \in Connections : HandlerEnqueue(c)
    \/ \E c \in Connections : HandlerReply(c)
    \/ \E c \in Connections : HandlerGone(c)
    \/ DispatcherDequeue
    \/ DispatcherRespond

\* Clients whose commands meet values of the wrong kind: after SET k1 a an
\* INCR k1 is answered "ERR value is not an integer or out of range", and
\* an LPUSH k1 a a WRONGTYPE error, as is INCR k1 after LPUSH k1 a.  The
\* client of connection 1 writes strings and lists, the others count.
TypedCommands(c) ==
    IF c = 1 THEN {Set("k1", <<"a">>), LPush("k1", <<<<"a">>>>)}
    ELSE {Incr("k1"), LPush("k1", <<<<"a">>>>)}

\* handle_connection: as HandlerEnqueue, for the commands of these clients
HandlerEnqueueTyped(c) ==
    /\ handler[c].pc = "read"
    /\ handler[c].n < CommandsPerConn
    /\ \E command \in TypedCommands(c) :
          /\ job_queue' = push_back(job_queue,
                                    CommandWithSender(command, Sender(c, handler[c].n + 1)))
          /\ handler' = [handler EXCEPT ![c] =
                            [pc |-> "recv", n |-> @.n + 1,
                             commands |-> Append(@.commands, command)]]
    /\ chan' = [chan EXCEPT ![c] = channel(handler[c].n + 1)]
    /\ UNCHANGED <<dispatcher, socket_out, applied>>
    /\ UNCHANGED <<cvars, not_svars>>

NextErrors ==
    \/ \E c \in Connections : HandlerEnqueueTyped(c)
    \/ \E c \in Connections : HandlerReply(c)
    \/ DispatcherDequeue
    \/ DispatcherRespond

\* One client, on connection 1, the ticker, and time passing.
NextSweeper ==
    \/ HandlerEnqueue(1)
    \/ HandlerReply(1)
    \/ DispatcherDequeue
    \/ DispatcherRespond
    \/ TickerEnqueue
    \/ TickerWake
    \/ Tick

-----------------------------------------------------------------------------
(* The store under the generic commands on two keys, and under the string, *)
(* integer and list commands on one key.  No ExpIntervalCheck is           *)
(* handled here, so that an expired key stays in the table.  `last` also   *)
(* keeps the store as it was before the command.                           *)

\* DEL and EXISTS are given these lists of keys.
KeyLists == {<<"k1">>, <<"k1", "k1">>, <<"k1", "k2">>}
\* INCRBY and DECRBY are given these deltas.
Deltas == {<<"2">>, <<"x">>}
\* The integer commands are given while the key's integer is within
\* -MaxInt..MaxInt, and LPUSH while its list has fewer than MaxList items.
MaxInt == 2
MaxList == 1

\* The dispatcher's call core.handle_command(command)
Apply(command) ==
    LET r == handle_command(storage, clock, command) IN
    /\ storage' = r.st
    /\ last' = [cmd |-> command, resp |-> r.resp, scanned |-> <<>>,
                before |-> storage]
    /\ UNCHANGED clock
    /\ UNCHANGED not_cvars

KSet == \E k \in Keys : Apply(Set(k, <<"a">>)) /\ last'.cmd.op = "Set"
KExpire ==
    /\ Len(storage.key_expiration_queue) < MaxHeap
    /\ \E k \in Keys, t \in 0..MaxTtl : Apply(Expire(k, t))
KTtl == \E k \in Keys : Apply(Ttl(k)) /\ last'.cmd.op = "Ttl"
KExists == \E keys \in KeyLists : Apply(Exists(keys)) /\ last'.cmd.op = "Exists"
KDel == \E keys \in KeyLists : Apply(Del(keys)) /\ last'.cmd.op = "Del"
KFlush == Apply(Flush) /\ last'.cmd.op = "Flush"

NextKeys ==
    \/ KSet
    \/ KExpire
    \/ KTtl
    \/ KExists
    \/ KDel
    \/ KFlush
    \/ Tick

\* The integer that "k1" holds, if it holds one
InIntRange ==
    "k1" \in DOMAIN storage.hash_map /\ storage.hash_map["k1"].value.kind = "Integer"
        => storage.hash_map["k1"].value.int \in (-MaxInt)..MaxInt
ListIsShort ==
    "k1" \in DOMAIN storage.hash_map /\ storage.hash_map["k1"].value.kind = "List"
        => Len(storage.hash_map["k1"].value.list) < MaxList

VSet == Apply(Set("k1", <<"a">>)) /\ last'.cmd.op = "Set"
VGet == Apply(Get("k1")) /\ last'.cmd.op = "Get"
VIncr == InIntRange /\ Apply(Incr("k1")) /\ last'.cmd.op = "Incr"
VDecr == InIntRange /\ Apply(Decr("k1")) /\ last'.cmd.op = "Decr"
VIncrBy == InIntRange /\ \E d \in Deltas : Apply(IncrBy("k1", d)) /\ last'.cmd.op = "IncrBy"
VDecrBy == InIntRange /\ \E d \in Deltas : Apply(DecrBy("k1", d)) /\ last'.cmd.op = "DecrBy"
VLPush == ListIsShort /\ Apply(LPush("k1", <<<<"a">>>>)) /\ last'.cmd.op = "LPush"
VExpire ==
    /\ Len(storage.key_expiration_queue) < MaxHeap
    /\ \E t \in 0..MaxTtl : Apply(Expire("k1", t))
VTtl == Apply(Ttl("k1")) /\ last'.cmd.op = "Ttl"

NextValues ==
    \/ VSet
    \/ VGet
    \/ VIncr
    \/ VDecr
    \/ VIncrBy
    \/ VDecrBy
    \/ VLPush
    \/ VExpire
    \/ VTtl
    \/ Tick

-----------------------------------------------------------------------------
(* Writes and reads on two keys.  "k1" can also be made an Integer (INCR)  *)
(* or a List (LPUSH) and be given an expiration, so that SET and MSET meet  *)
(* every kind of entry.  `last.prev` keeps the command handled just before.*)

Values == {<<"a">>, <<"b">>}
ValueLists == {<<<<"a">>>>, <<<<"a">>, <<"b">>>>}

\* The dispatcher's call core.handle_command(command)
ApplyNext(command) ==
    LET r == handle_command(storage, clock, command) IN
    /\ storage' = r.st
    /\ last' = [cmd |-> command, resp |-> r.resp, scanned |-> <<>>,
                prev |-> last.cmd]
    /\ UNCHANGED clock
    /\ UNCHANGED not_cvars

\* The parser gives MSET as many values as keys.
WriteReadCommands ==
    {Set(k, v) : k \in Keys, v \in Values}
        \cup {MSet(keys, values) : keys \in KeyLists, values \in ValueLists}
        \cup {Get(k) : k \in Keys}
        \cup {MGet(keys) : keys \in KeyLists}
        \cup {Incr("k1"), LPush("k1", <<<<"a">>>>)}
        \cup {Expire("k1", t) : t \in 0..MaxTtl}

\* The bounds on the heap, the integer and the list
CommandGiven(command) ==
    /\ command.op = "MSet" => Len(command.keys) = Len(command.values)
    /\ command.op = "Expire" => Len(storage.key_expiration_queue) < MaxHeap
    /\ command.op \in {"Incr", "Decr", "IncrBy", "DecrBy"} => InIntRange
    /\ command.op \in {"LPush", "RPush"} => ListIsShort

WriteReadCommand ==
    \E command \in WriteReadCommands : CommandGiven(command) /\ ApplyNext(command)

\* No time passes here: EXPIRE with 0 seconds leaves an expired entry in the
\* table and EXPIRE with more a live one.
NextWriteRead == WriteReadCommand

(* The string commands that read before they write (SETNX, GETSET, GETDEL)  *)
(* and MGET, on a key that can hold every kind of value.                    *)

\* The dispatcher's call core.handle_command(command)
ApplyPlain(command) ==
    LET r == handle_command(storage, clock, command) IN
    /\ storage' = r.st
    /\ last' = [cmd |-> command, resp |-> r.resp, scanned |-> <<>>]
    /\ UNCHANGED clock
    /\ UNCHANGED not_cvars

StringCommands ==
    {Set(k, <<"a">>) : k \in Keys}
        \cup {SetNx(k, <<"b">>) : k \in Keys}
        \cup {GetSet(k, <<"b">>) : k \in Keys}
        \cup {GetDel(k) : k \in Keys}
        \cup {MGet(keys) : keys \in KeyLists}
        \cup {Incr("k1"), LPush("k1", <<<<"a">>>>)}
        \cup {Expire("k1", t) : t \in 0..MaxTtl}

StringCommand ==
    \E command \in StringCommands : CommandGiven(command) /\ ApplyPlain(command)

NextStrings ==
    \/ StringCommand
    \/ Tick

(* The list commands on one key, which can also be made a String (SET) or  *)
(* an Integer (INCR) and be given an expiration.                            *)

\* LPUSH and RPUSH are given these values while the list stays within
\* MaxListLen items, LPOP and RPOP a count of 0..MaxCount.
PushLists == {<<<<"a">>>>, <<<<"b">>, <<"c">>>>}
MaxListLen == 3
MaxCount == 2

\* CommandIter::parse, the LPOP/RPOP arm: `arguments` are the tokens after
\* the command name, the key and possibly a count in decimal; None stands
\* for Err.
ParsePop(name, arguments) ==
    LET key == arguments[1]
        count == IF Len(arguments) = 1 THEN Some(1) ELSE parse_isize(arguments[2]) IN
    IF count = None THEN None
    ELSE IF name = "LPOP" THEN Some(LPop(key, count[1]))
    ELSE Some(RPop(key, count[1]))

ListCommands ==
    {LPush("k1", values) : values \in PushLists}
        \cup {RPush("k1", values) : values \in PushLists}
        \cup {ParsePop(name, <<"k1">>)[1] : name \in {"LPOP", "RPOP"}}
        \cup {ParsePop(name, <<"k1", to_string(count)>>)[1] :
                  name \in {"LPOP", "RPOP"}, count \in 0..MaxCount}
        \cup {Set("k1", <<"a">>), Incr("k1"), Get("k1")}
        \cup {Expire("k1", t) : t \in 0..MaxTtl}

\* The bounds on the heap, the integer and the list
ListCommandGiven(command) ==
    /\ command.op = "Expire" => Len(storage.key_expiration_queue) < MaxHeap
    /\ command.op = "Incr" => InIntRange
    /\ (/\ command.op \in {"LPush", "RPush"}
        /\ command.key \in DOMAIN storage.hash_map
        /\ storage.hash_map[command.key].value.kind = "List")
          => Len(storage.hash_map[command.key].value.list) + Len(command.values)
                <= MaxListLen

ListCommand ==
    \E command \in ListCommands : ListCommandGiven(command) /\ Apply(command)

\* No time passes here either.
NextLists == ListCommand

(* Every command that acts in place or reads, on one key that SET, the    *)
(* integer commands and the pushes create, EXPIRE gives an expiration and  *)
(* DEL removes; time passes, and nothing is swept.                         *)

LiveCommands ==
    {Set("k1", <<"a">>), Del(<<"k1">>)}
        \cup {Expire("k1", t) : t \in 0..MaxTtl}
        \cup {Incr("k1"), Decr("k1"), IncrBy("k1", <<"2">>), DecrBy("k1", <<"2">>)}
        \cup {LPush("k1", <<<<"b">>>>), RPush("k1", <<<<"a">>>>)}
        \cup {LPop("k1", 1), RPop("k1", 1)}
        \cup {Get("k1"), MGet(<<"k1">>), Ttl("k1"), Exists(<<"k1">>)}

\* The bounds on the heap, the integer and the list
LiveCommandGiven(command) ==
    /\ command.op \in {"Incr", "Decr", "IncrBy", "DecrBy"} => InIntRange
    /\ ListCommandGiven(command)

LiveCommand ==
    \E command \in LiveCommands : LiveCommandGiven(command) /\ Apply(command)

NextLive ==
    \/ LiveCommand
    \/ Tick

-----------------------------------------------------------------------------
(* connection/inbound.rs: TokenIter and CommandIter over the bytes of a    *)
(* connection.  What a reading function gives is [res, value, rest]: res   *)
(* is "Ok", "Err" or "Panic" (the calling thread panics) and rest the      *)
(* bytes left unread.                                                      *)

ROk(value, rest) == [res |-> "Ok", value |-> value, rest |-> rest]
RErr(rest) == [res |-> "Err", value |-> None, rest |-> rest]
RPanic == [res |-> "Panic", value |-> None, rest |-> <<>>]

\* enum Token (connection/inbound.rs, lines 237-240)
TokenString(bytes) == [kind |-> "String", bytes |-> bytes]
TokenArray(size) == [kind |-> "Array", size |-> size]

\* TokenIter::consume_bytes: read_exact fails when the stream ends first
consume_bytes(stream, amount) ==
    IF Len(stream) >= amount
      THEN ROk(SubSeq(stream, 1, amount), SubSeq(stream, amount + 1, Len(stream)))
      ELSE RErr(<<>>)

\* TokenIter::consume_line: read_until(10) reads up to and including the
\* first \n, or to the end of the stream; &buffer[buffer.len() - 2..]
\* panics when fewer than two bytes were read (the subtraction overflows,
\* or wraps and the slice index is out of range)
consume_line(stream) ==
    LET lfs == {i \in 1..Len(stream) : stream[i] = "\n"}
        n == IF lfs = {} THEN Len(stream)
             ELSE CHOOSE i \in lfs : \A j \in lfs : i <= j
        rest == SubSeq(stream, n + 1, Len(stream)) IN
    IF n < 2 THEN RPanic
    ELSE IF stream[n - 1] = "\r" /\ stream[n] = "\n"
      THEN ROk(SubSeq(stream, 1, n - 2), rest)
    ELSE RErr(rest)

\* TokenIter::next_token.  bytes_to_integer is str::parse::<isize>; a
\* negative bulk length cast to usize makes vec![0; amount] panic (capacity
\* overflow); a negative array size is kept as it is.
next_token(stream) ==
    LET prefix == consume_bytes(stream, 1) IN
    IF prefix.res # "Ok" THEN RErr(prefix.rest)
    ELSE IF prefix.value[1] = "$"
      THEN LET line == consume_line(prefix.rest) IN
           IF line.res # "Ok" THEN line
           ELSE LET bulk_string_len == parse_isize(line.value) IN
                IF bulk_string_len = None THEN RErr(line.rest)
                ELSE IF bulk_string_len[1] < 0 THEN RPanic
                ELSE LET string == consume_bytes(line.rest, bulk_string_len[1])
                         crlf == consume_bytes(string.rest, 2) IN
                     IF string.res # "Ok" THEN RErr(string.rest)
                     ELSE IF crlf.res # "Ok" THEN RErr(crlf.rest)
                     ELSE ROk(TokenString(string.value), crlf.rest)
    ELSE IF prefix.value[1] = "*"
      THEN LET line == consume_line(prefix.rest) IN
           IF line.res # "Ok" THEN RPanic
           ELSE LET num_of_items == parse_isize(line.value) IN
                IF num_of_items = None THEN RErr(line.rest)
                ELSE ROk(TokenArray(num_of_items[1]), line.rest)
    ELSE RPanic

\* Iterator::next for TokenIter: Some(token), or None on any error
TokenIterNext(stream) ==
    LET ok(r) == IF r.res = "Ok" THEN ROk(Some(r.value), r.rest)
                 ELSE IF r.res = "Err" THEN ROk(None, r.rest)
                 ELSE RPanic IN
    ok(next_token(stream))

\* token_iter.take(num).collect(): stops at the first None
RECURSIVE TakeTokens(_, _, _)
TakeTokens(stream, num, tokens) ==
    LET Collect(t) ==
            IF t.res = "Panic" THEN RPanic
            ELSE IF t.value = None THEN ROk(tokens, t.rest)
            ELSE TakeTokens(t.rest, num - 1, Append(tokens, t.value[1])) IN
    IF num = 0 THEN ROk(tokens, stream)
    ELSE Collect(TokenIterNext(stream))

\* command_size
command_size(stream) ==
    LET Size(t) ==
            IF t.res = "Panic" THEN RPanic
            ELSE IF t.value # None /\ t.value[1].kind = "Array"
              THEN ROk(t.value[1].size, t.rest)
            ELSE RErr(t.rest) IN
    Size(TokenIterNext(stream))

\* bytes_to_string, for the command names parse knows ("" for any other)
bytes_to_string(bytes) ==
    CASE bytes = <<"D", "E", "L">> -> "DEL"
      [] bytes = <<"E", "X", "I", "S", "T", "S">> -> "EXISTS"
      [] bytes = <<"E", "X", "P", "I", "R", "E">> -> "EXPIRE"
      [] bytes = <<"F", "L", "U", "S", "H", "A", "L", "L">> -> "FLUSHALL"
      [] bytes = <<"G", "E", "T">> -> "GET"
      [] bytes = <<"G", "E", "T", "D", "E", "L">> -> "GETDEL"
      [] bytes = <<"T", "T", "L">> -> "TTL"
      [] bytes = <<"I", "N", "C", "R">> -> "INCR"
      [] bytes = <<"D", "E", "C", "R">> -> "DECR"
      [] bytes = <<"S", "E", "T">> -> "SET"
      [] bytes = <<"S", "E", "T", "N", "X">> -> "SETNX"
      [] bytes = <<"G", "E", "T", "S", "E", "T">> -> "GETSET"
      [] bytes = <<"I", "N", "C", "R", "B", "Y">> -> "INCRBY"
      [] bytes = <<"D", "E", "C", "R", "B", "Y">> -> "DECRBY"
      [] bytes = <<"M", "G", "E", "T">> -> "MGET"
      [] bytes = <<"M", "S", "E", "T">> -> "MSET"
      [] bytes = <<"L", "P", "U", "S", "H">> -> "LPUSH"
      [] bytes = <<"R", "P", "U", "S", "H">> -> "RPUSH"
      [] bytes = <<"L", "P", "O", "P">> -> "LPOP"
      [] bytes = <<"R", "P", "O", "P">> -> "RPOP"
      [] OTHER -> ""

\* command
command(stream) ==
    LET Name(t) ==
            IF t.res = "Panic" THEN RPanic
            ELSE IF t.value # None /\ t.value[1].kind = "String"
              THEN ROk(bytes_to_string(t.value[1].bytes), t.rest)
            ELSE RErr(t.rest) IN
    Name(TokenIterNext(stream))

\* arguments
arguments(stream, num) ==
    LET Taken(r) ==
            IF r.res = "Panic" THEN RPanic
            ELSE IF Len(r.value) = num THEN r
            ELSE RErr(r.rest) IN
    Taken(TakeTokens(stream, num, <<>>))

\* expect_key / expect_binary on the first n arguments, in order:
\* arguments.remove(0) panics when no argument is left, and a token that is
\* not a String is an error
ExpectStrings(args, n) ==
    LET bad == {i \in 1..n : i > Len(args) \/ args[i].kind # "String"} IN
    IF bad = {} THEN "Ok"
    ELSE IF (CHOOSE i \in bad : \A j \in bad : i <= j) > Len(args) THEN "Panic"
    ELSE "Err"

BytesOf(args) == [i \in 1..Len(args) |-> args[i].bytes]
EvenItems(s) == [i \in 1..(Len(s) \div 2) |-> s[2 * i]]
OddItems(s) == [i \in 1..((Len(s) + 1) \div 2) |-> s[2 * i - 1]]

\* CommandIter::parse, the match on the command name: "Ok" with the
\* Command, "Err" or "Panic"
ParseArm(name, args) ==
    LET all == ExpectStrings(args, Len(args))
        one == ExpectStrings(args, 1)
        two == ExpectStrings(args, 2)
        b == BytesOf(args)
        Result(expect, cmd) ==
            IF expect = "Ok" THEN ROk(cmd, <<>>)
            ELSE IF expect = "Err" THEN RErr(<<>>) ELSE RPanic IN
    CASE name = "DEL" -> Result(all, Del(b))
      [] name = "EXISTS" -> Result(all, Exists(b))
      [] name = "EXPIRE" ->
            IF two # "Ok" THEN Result(two, NoCommand)
            ELSE IF parse_isize(b[2]) = None THEN RErr(<<>>)
            ELSE ROk(Expire(b[1], parse_isize(b[2])[1]), <<>>)
      [] name = "FLUSHALL" -> ROk(Flush, <<>>)
      [] name = "GET" -> Result(one, Get(b[1]))
      [] name = "GETDEL" -> Result(one, GetDel(b[1]))
      [] name = "TTL" -> Result(one, Ttl(b[1]))
      [] name = "INCR" -> Result(one, Incr(b[1]))
      [] name = "DECR" -> Result(one, Decr(b[1]))
      [] name = "SET" -> Result(two, Set(b[1], b[2]))
      [] name = "SETNX" -> Result(two, SetNx(b[1], b[2]))
      [] name = "GETSET" -> Result(two, GetSet(b[1], b[2]))
      [] name = "INCRBY" -> Result(two, IncrBy(b[1], b[2]))
      [] name = "DECRBY" -> Result(two, DecrBy(b[1], b[2]))
      [] name = "MGET" -> Result(all, MGet(b))
      [] name = "MSET" ->
            IF all # "Ok" THEN Result(all, NoCommand)
            ELSE IF Len(args) % 2 # 0 THEN RErr(<<>>)
            ELSE ROk(MSet(OddItems(b), EvenItems(b)), <<>>)
      [] name = "LPUSH" ->
            IF one # "Ok" THEN Result(one, NoCommand)
            ELSE Result(all, LPush(b[1], Tail(b)))
      [] name = "RPUSH" ->
            IF one # "Ok" THEN Result(one, NoCommand)
            ELSE Result(all, RPush(b[1], Tail(b)))
      [] name \in {"LPOP", "RPOP"} ->
            IF one # "Ok" THEN Result(one, NoCommand)
            ELSE IF Len(args) = 1 THEN ROk(ParsePop(name, <<b[1]>>)[1], <<>>)
            ELSE IF two # "Ok" THEN RErr(<<>>)
            ELSE IF ParsePop(name, <<b[1], b[2]>>) = None THEN RErr(<<>>)
            ELSE ROk(ParsePop(name, <<b[1], b[2]>>)[1], <<>>)
      [] OTHER -> RPanic

\* CommandIter::parse.  command_size - 1 on a size of 0 panics in a build
\* with overflow checks and wraps to usize::MAX in one without; a size that
\* wrapped (or was negative) asks for more tokens than the stream can hold.
parse(stream, overflow_checks) ==
    LET Matched(arm, rest) ==
            IF arm.res = "Ok" THEN ROk(arm.value, rest)
            ELSE IF arm.res = "Err" THEN RErr(rest)
            ELSE RPanic
        WithArguments(name, args) ==
            IF args.res # "Ok" THEN args
            ELSE Matched(ParseArm(name, args.value), args.rest)
        num(size) == IF size >= 1 THEN size - 1 ELSE Len(stream) + 1
        WithCommand(size, name) ==
            IF name.res # "Ok" THEN name
            ELSE IF size = 0 /\ overflow_checks THEN RPanic
            ELSE WithArguments(name.value, arguments(name.rest, num(size)))
        WithSize(size) ==
            IF size.res # "Ok" THEN size
            ELSE WithCommand(size.value, command(size.rest)) IN
    WithSize(command_size(stream))

\* Iterator::next for CommandIter: self.parse().ok()
CommandIterNext(stream, overflow_checks) ==
    LET ok(r) == IF r.res = "Ok" THEN ROk(Some(r.value), r.rest)
                 ELSE IF r.res = "Err" THEN ROk(None, r.rest)
                 ELSE RPanic IN
    ok(parse(stream, overflow_checks))

(* server.rs, handle_connection over the bytes a client sends: the loop     *)
(* `for command in command_iter { enqueue; recv; write_all }`.              *)

\* The bytes of GET k
GetK == <<"*", "2">> \o CRLF \o <<"$", "3">> \o CRLF \o <<"G", "E", "T">> \o CRLF
            \o <<"$", "1">> \o CRLF \o <<"k">> \o CRLF
\* A client sends nothing or GET k, and then GET k again, a part of it, or
\* up to MaxTail bytes of Alphabet, and closes.
Alphabet == {"*", "$", "0", "x", "\r", "\n"}
MaxTail == 4
Tails == UNION {[1..m -> Alphabet] : m \in 0..MaxTail}
Truncations == {SubSeq(GetK, 1, n) : n \in 0..Len(GetK)}
Streams == {p \o t : p \in {<<>>, GetK}, t \in Tails \cup Truncations}

InitInbound ==
    /\ inbound = <<>>
    /\ reader = [pc |-> "accept", stream |-> <<>>, enqueued |-> <<>>]

\* accept_loop: a client connects; what it will have sent when it closes
\* is `stream`
Accept ==
    /\ reader.pc = "accept"
    /\ \E stream \in Streams :
          /\ inbound' = stream
          /\ reader' = [reader EXCEPT !.pc = "next", !.stream = stream]
    /\ UNCHANGED not_ivars

\* handle_connection: command_iter.next(), and for Some(command)
\* job_queue.enqueue; the loop ends on None and the thread dies on a panic
ReadCommand ==
    /\ reader.pc = "next"
    /\ \E overflow_checks \in BOOLEAN :
        \E r \in {CommandIterNext(inbound, overflow_checks)} :
          /\ inbound' = r.rest
          /\ reader' =
                IF r.res = "Panic" THEN [reader EXCEPT !.pc = "panicked"]
                ELSE IF r.value = None THEN [reader EXCEPT !.pc = "terminated"]
                ELSE [reader EXCEPT !.pc = "recv",
                                    !.enqueued = Append(@, r.value[1])]
    /\ UNCHANGED not_ivars

\* handle_connection: rx.recv() and write_all, once the dispatcher answered
ReceiveReply ==
    /\ reader.pc = "recv"
    /\ reader' = [reader EXCEPT !.pc = "next"]
    /\ UNCHANGED inbound
    /\ UNCHANGED not_ivars

NextInbound ==
    \/ Accept
    \/ ReadCommand
    \/ ReceiveReply

-----------------------------------------------------------------------------
(* The requests of a client: one command per connection, sent as an array *)
(* of `count` bulk strings, the command name first (spec section 4.2).    *)

\* The most arguments a request carries
MaxArgs == 4
\* The names of the commands with a fixed arity, and of MSET
CommandNames ==
    {<<"G", "E", "T">>, <<"G", "E", "T", "D", "E", "L">>, <<"T", "T", "L">>,
     <<"I", "N", "C", "R">>, <<"D", "E", "C", "R">>,
     <<"S", "E", "T">>, <<"S", "E", "T", "N", "X">>,
     <<"G", "E", "T", "S", "E", "T">>, <<"I", "N", "C", "R", "B", "Y">>,
     <<"D", "E", "C", "R", "B", "Y">>, <<"E", "X", "P", "I", "R", "E">>,
     <<"F", "L", "U", "S", "H", "A", "L", "L">>, <<"M", "S", "E", "T">>}
\* The arguments: a key and an integer
ArgumentBytes == {<<"k">>, <<"1">>}
ArgumentLists == UNION {[1..n -> ArgumentBytes] : n \in 0..MaxArgs}
\* The bytes of an array of bulk strings
Request(strings) ==
    encode(Array([i \in 1..Len(strings) |-> BulkString(strings[i])]))
RequestStreams ==
    {Request(<<>>)}
      \cup {Request(<<name>> \o args) : name \in CommandNames, args \in ArgumentLists}

\* accept_loop: a client connects and sends one request
AcceptRequest ==
    /\ reader.pc = "accept"
    /\ \E stream \in RequestStreams :
          /\ inbound' = stream
          /\ reader' = [reader EXCEPT !.pc = "next", !.stream = stream]
    /\ UNCHANGED not_ivars

NextRequests ==
    \/ AcceptRequest
    \/ ReadCommand
    \/ ReceiveReply

-----------------------------------------------------------------------------
(* The token stream on its own: `for token in token_iter` over the bytes   *)
(* of one bulk string and what follows its payload.                        *)

\* The longest payload
MaxPayload == 2
PayloadBytes == {"a", "\r", "\n"}
Payloads == UNION {[1..n -> PayloadBytes] : n \in 0..MaxPayload}
\* What follows the payload: two bytes, or fewer when the stream ends
Trailers == UNION {[1..n -> PayloadBytes] : n \in 0..2}
\* $<len>\r\n<payload><trailer>
Bulk(payload, trailer) ==
    <<"$">> \o to_string(Len(payload)) \o CRLF \o payload \o trailer
BulkStreams == {Bulk(payload, trailer) : payload \in Payloads, trailer \in Trailers}

\* TokenIter(BufReader::new(stream))
OpenTokens ==
    /\ reader.pc = "accept"
    /\ \E stream \in BulkStreams :
          /\ inbound' = stream
          /\ reader' = [reader EXCEPT !.pc = "token", !.stream = stream]
    /\ UNCHANGED not_ivars

\* Iterator::next for TokenIter; the tokens yielded are kept in `enqueued`
NextToken ==
    /\ reader.pc = "token"
    /\ \E t \in {TokenIterNext(inbound)} :
          /\ inbound' = t.rest
          /\ reader' =
                IF t.res = "Panic" THEN [reader EXCEPT !.pc = "panicked"]
                ELSE IF t.value = None THEN [reader EXCEPT !.pc = "terminated"]
                ELSE [reader EXCEPT !.enqueued = Append(@, t.value[1])]
    /\ UNCHANGED not_ivars

NextTokens ==
    \/ OpenTokens
    \/ NextToken

-----------------------------------------------------------------------------
(* The encoder applied to a response, connection/outbound.rs, and for a    *)
(* bulk string the token stream over the bytes it gave.                    *)

ResponseIntegers == (-MaxInt..MaxInt) \cup {-12, 10}
\* The responses that are not arrays
PlainResponses ==
    {SimpleString(b) : b \in Payloads} \cup {BulkString(b) : b \in Payloads}
      \cup {IntegerResponse(n) : n \in ResponseIntegers}
      \cup {Error(WRONGTYPE), Error(NOTINTEGER), Null, NullArray}
\* The items of an array: a plain response or an array
ArrayItems == PlainResponses \cup {Array(<<>>), Array(<<Null, BulkString(<<"a">>)>>)}
Responses ==
    PlainResponses \cup {Array(items) : items \in UNION {[1..n -> ArrayItems] : n \in 0..2}}

\* encode(response); the bytes of a bulk string are handed to a token stream
EncodeResponse ==
    /\ reader.pc = "accept"
    /\ \E response \in Responses :
          /\ last' = [cmd |-> NoCommand, resp |-> response, scanned |-> <<>>]
          /\ inbound' = encode(response)
          /\ reader' = [reader EXCEPT
                          !.pc = IF response.kind = "BulkString" THEN "token" ELSE "encoded",
                          !.stream = encode(response)]
    /\ UNCHANGED <<storage, clock>>
    /\ UNCHANGED <<dvars, qvars, svars>>

NextEncode ==
    \/ EncodeResponse
    \/ NextToken

-----------------------------------------------------------------------------
(* Specifications                                                          *)

Init == InitDisruptor /\ InitDeque /\ InitCore /\ InitServer /\ InitInbound

SpecDisruptor == Init /\ [][NextDisruptor]_vars

\* The producer threads and the consumer thread keep being scheduled.
SpecDisruptorFair ==
    /\ SpecDisruptor
    /\ \A p \in Producers : WF_vars(EnqueueStep(p))
    /\ WF_vars(DequeueStep)

SpecDeque == Init /\ [][NextDeque]_vars

SpecStore == Init /\ [][NextStore]_vars

SpecKeys == Init /\ [][NextKeys]_vars

SpecValues == Init /\ [][NextValues]_vars

SpecWriteRead == Init /\ [][NextWriteRead]_vars

SpecStrings == Init /\ [][NextStrings]_vars

SpecLists == Init /\ [][NextLists]_vars

SpecLive == Init /\ [][NextLive]_vars

SpecInbound == Init /\ [][NextInbound]_vars

SpecRequests == Init /\ [][NextRequests]_vars

SpecTokens == Init /\ [][NextTokens]_vars

SpecEncode == Init /\ [][NextEncode]_vars

SpecServer == Init /\ [][NextServer]_vars

SpecServerClose == Init /\ [][NextServerClose]_vars

SpecSweeper == Init /\ [][NextSweeper]_vars

\* The ticker and the dispatcher are scheduled fairly, and so are the
\* handlers once their reply is there; a client is never owed a command.
\* Every thread keeps being scheduled, and every client sends its commands.
SpecErrorsFair ==
    /\ Init /\ [][NextErrors]_vars
    /\ WF_vars(DispatcherDequeue)
    /\ WF_vars(DispatcherRespond)
    /\ \A c \in Connections : WF_vars(HandlerEnqueueTyped(c))
    /\ \A c \in Connections : WF_vars(HandlerReply(c))

SpecSweeperFair ==
    /\ SpecSweeper
    /\ WF_vars(TickerEnqueue)
    /\ WF_vars(TickerWake)
    /\ WF_vars(DispatcherDequeue)
    /\ WF_vars(DispatcherRespond)
    /\ \A c \in Connections : WF_vars(HandlerReply(c))

\* The threads are scheduled fairly: a thread that can take a step
\* eventually takes one.  A spurious wake-up is never owed.
SpecDequeFair ==
    /\ SpecDeque
    /\ \A p \in Producers : WF_vars(DequeProducerStep(p))
    /\ WF_vars(DequeConsumerStep)

-----------------------------------------------------------------------------

(* Claims about the ring-buffer queue                                      *)

\* C1: the dequeue calls return exactly the enqueued items: every dequeue
\* returns an item (the unwrap never meets an empty slot), no item is returned
\* twice, and once all P*M dequeue calls have returned they have returned
\* every enqueued item.
C1_DequeuesExactlyTheEnqueuedItems ==
    /\ consumer.pc # "panicked"
    /\ NoDuplicates(dequeued)
    /\ consumer.pc = "done" => Range(dequeued) = AllItems

\* C2: the k-th dequeue returns the item written for claimed sequence k, and
\* so the items of one producer come out in the order it enqueued them.
C2_DequeueFollowsSequenceOrder ==
    /\ \A k \in 1..Len(dequeued) :
          k <= Len(seq_item) /\ dequeued[k] = seq_item[k]
    /\ \A i, j \in 1..Len(dequeued) :
          (i < j /\ ProducerOf(dequeued[i]) = ProducerOf(dequeued[j]))
             => dequeued[i] < dequeued[j]

\* C35: the ring-buffer queue never over-claims.  The number of sequences
\* claimed and not yet consumed is at most the ring size
\* (next_slot - head - 1 <= size), and no producer writes a slot whose
\* previous item the consumer has not yet taken.
C35_NeverOverClaims ==
    /\ [](next_slot_cursor - head_cursor - 1 <= SIZE)
    /\ [][\A p \in Producers :
            (producer[p].pc = "write" /\ producer'[p].pc = "commit")
              => ring[slot_from_sequence(producer[p].next_sequence)] = None]_vars

\* The sequences written so far: seq_item[s] is the item stored for s
Written(s) == s <= Len(seq_item) /\ seq_item[s] # 0

\* C36: head <= tail <= next_slot - 1 in every state; none of the three
\* cursors ever decreases; tail changes only from s-1 to s, by the producer
\* that claimed s, after it stored its item in slot s & (size-1); so every
\* sequence up to tail has been written.
C36_CursorsAreOrderedAndMonotone ==
    /\ [](head_cursor <= tail_cursor /\ tail_cursor <= next_slot_cursor - 1)
    /\ [](\A s \in 1..tail_cursor : Written(s))
    /\ [][/\ head_cursor' >= head_cursor
          /\ tail_cursor' >= tail_cursor
          /\ next_slot_cursor' >= next_slot_cursor
          /\ tail_cursor' # tail_cursor
                => /\ tail_cursor' = tail_cursor + 1
                   /\ \E p \in Producers :
                         /\ producer[p].pc = "commit"
                         /\ producer[p].next_sequence = tail_cursor'
                         /\ producer'[p].sent = producer[p].sent + 1
                         /\ seq_item[tail_cursor'] = Item(p, producer'[p].sent)
                         /\ UNCHANGED ring]_vars

\* Both producers have committed: sequences 1 and 2 were claimed by
\* different producers and the consumer has taken the first
C36_Witness ==
    /\ tail_cursor >= 2
    /\ head_cursor >= 1
    /\ Written(1) /\ Written(2)
    /\ ProducerOf(seq_item[1]) # ProducerOf(seq_item[2])

\* C37: dequeue never reads an empty slot.  When the consumer, past the
\* empty check and the increment of head, reads slot head & (size-1), the
\* slot holds Some(item): the unwrap does not panic.
C37_DequeueNeverReadsEmptySlot ==
    [][(consumer.pc = "take" /\ consumer'.pc # "take")
          => /\ ring[slot_from_sequence(consumer.consume_sequence)] # None
             /\ consumer'.pc # "panicked"]_vars

\* C38: enqueue terminates.  With every producer scheduled fairly and a
\* consumer that keeps dequeuing (it does not panic), every enqueue call
\* returns: no producer panics, and every producer comes to the end of its
\* items, so none spins forever on a full ring or on the commit of a
\* predecessor.
C38_EnqueueTerminates ==
    /\ [](\A p \in Producers : producer[p].pc # "panicked")
    /\ <>(consumer.pc = "panicked" \/ \A p \in Producers : producer[p].pc = "done")

-----------------------------------------------------------------------------
(* Claims about the mutex and condvar queue                                *)

\* The items producer p has pushed so far.
DequePushed(p) ==
    {Item(p, i) : i \in 1..(dq_producer[p].sent +
        (IF dq_producer[p].pc \in {"notify_one", "unlock"} THEN 1 ELSE 0))}
InProducerOrder(s) ==
    \A i, j \in 1..Len(s) :
        (i < j /\ ProducerOf(s[i]) = ProducerOf(s[j])) => s[i] < s[j]

\* C3: every pushed item is either still queued or was returned by exactly
\* one dequeue, never both and never twice, and what the consumer has got
\* followed by what is queued is the order of the push_back calls, so each
\* producer's items come out in the order it enqueued them.
C3_DequeDeliversEachItemOnceInOrder ==
    LET delivered == dq_out \o dq_queue IN
    /\ NoDuplicates(delivered)
    /\ Range(delivered) = UNION {DequePushed(p) : p \in Producers}
    /\ InProducerOrder(delivered)
    /\ dq_consumer.pc = "done" => Range(dq_out) = AllItems

\* C3 witness: the consumer has dequeued every item, the producers' items
\* interleaved (the first item returned is the second producer's).
C3_Witness ==
    /\ dq_consumer.pc = "done"
    /\ Len(dq_out) = TotalItems
    /\ ProducerOf(dq_out[1]) = 2
    /\ ProducerOf(dq_out[2]) = 1

\* C4: a dequeue that finds the queue empty blocks, and no wake-up is lost:
\* whenever an item is in the queue, the consumer's pending dequeue
\* eventually returns one (the number of returned items grows).
C4_DequeueReturnsAfterEnqueue ==
    \A n \in 0..(TotalItems - 1) :
        (Len(dq_out) = n /\ Len(dq_queue) > 0) ~> (Len(dq_out) > n)

\* C4 witness: the consumer is parked in cvar.wait while a producer has
\* pushed an item and has not yet notified.
C4_Witness ==
    /\ dq_consumer.pc = "wait"
    /\ ConsumerId \in dq_cvar
    /\ Len(dq_queue) > 0

-----------------------------------------------------------------------------
(* Claims about expiration                                                 *)

Present(k) == k \in DOMAIN storage.hash_map
\* k is in the table and its stored expiration instant is <= now
ExpiredUnswept(k) ==
    /\ Present(k)
    /\ storage.hash_map[k].exp # None
    /\ storage.hash_map[k].exp[1] <= clock

\* C8: a key whose stored expiration instant is <= now reads as absent: the
\* GET just answered for such a key answered Null, swept or not.
C8_ExpiredKeyReadsAsAbsent ==
    \A k \in Keys :
        (last.cmd = Get(k) /\ ExpiredUnswept(k)) => last.resp = Null

\* C9: a sweep pops exactly the heap entries whose instant is <= now,
\* soonest first, and leaves the later ones; it deletes a key iff the key was
\* popped and its stored expiration is <= now, and changes no other entry:
\* a key whose expiration was cleared or moved into the future survives a
\* stale heap entry, and a popped key that is not in the table is ignored.
C9_SweepStep ==
    LET heap == storage.key_expiration_queue
        hm == storage.hash_map
        Due(e) == e.exp <= clock
        Later(e) == e.exp > clock
        due == SelectSeq(heap, Due)
        popped == {due[i].key : i \in 1..Len(due)} IN
    /\ last'.scanned = [i \in 1..Len(due) |-> due[i].key]
    /\ \A i, j \in 1..Len(due) : i < j => due[i].exp <= due[j].exp
    /\ \A i \in 1..Len(heap) : Due(heap[i]) => i <= Len(due)
    /\ storage'.key_expiration_queue = SelectSeq(heap, Later)
    /\ \A k \in Keys :
          k \in DOMAIN storage'.hash_map <=>
              /\ k \in DOMAIN hm
              /\ ~(k \in popped /\ hm[k].exp # None /\ hm[k].exp[1] <= clock)
    /\ \A k \in DOMAIN storage'.hash_map : storage'.hash_map[k] = hm[k]
C9_SweepDeletesOnlyExpiredKeys ==
    [][last'.cmd.op = "ExpIntervalCheck" => C9_SweepStep]_vars

\* C9 witness: a sweep has popped a stale heap entry of a key that is still
\* in the table afterwards, its expiration having been replaced by an
\* instant still in the future, and has left the later heap entry alone.
C9_Witness ==
    /\ last.cmd.op = "ExpIntervalCheck"
    /\ \E i \in 1..Len(last.scanned) :
          /\ Present(last.scanned[i])
          /\ storage.hash_map[last.scanned[i]].exp # None
          /\ storage.hash_map[last.scanned[i]].exp[1] > clock
    /\ storage.key_expiration_queue # <<>>

-----------------------------------------------------------------------------
(* Claims about the server                                                 *)

\* The commands of connection c that are enqueued or held by the dispatcher
InFlight(c) ==
    Cardinality({i \in 1..Len(job_queue) : job_queue[i].sender.conn = c})
      + (IF dispatcher.item # None /\ dispatcher.item[1].sender.conn = c THEN 1 ELSE 0)
\* The commands of connection c that the dispatcher has handled, in order
AppliedOf(c) == LET OfC(a) == a.sender.conn = c IN SelectSeq(applied, OfC)

\* C5: a connection has at most one command outstanding, and none, nor an
\* unread reply, when its handler reads the next one; every command it
\* enqueued is handled once, in the order of submission, and the replies
\* written to its socket are, in that order, the encoded responses to
\* those very commands, one each.
C5_OneOutstandingCommandOwnReplyInOrder ==
    \A c \in Connections :
        LET mine == AppliedOf(c)
            waiting == IF handler[c].pc = "recv" THEN 1 ELSE 0 IN
        /\ InFlight(c) + Len(chan[c].buf) = waiting
        /\ Len(socket_out[c]) = handler[c].n - waiting
        /\ Len(mine) = handler[c].n - InFlight(c)
        /\ \A i \in 1..Len(mine) :
              /\ mine[i].sender = Sender(c, i)
              /\ mine[i].command = handler[c].commands[i]
        /\ \A i \in 1..Len(socket_out[c]) : socket_out[c][i] = encode(mine[i].resp)
        /\ chan[c].buf # <<>> => Head(chan[c].buf) = encode(mine[Len(mine)].resp)

\* C5 witness: every connection has had all its commands answered, and two
\* connections were answered differently.
C5_Witness ==
    /\ \A c \in Connections : Len(socket_out[c]) = CommandsPerConn
    /\ \E c, d \in Connections : socket_out[c] # socket_out[d]

\* Running a log of commands one after the other on a store
RECURSIVE RunSequentially(_, _, _)
RunSequentially(st, log, resps) ==
    IF log = <<>> THEN [st |-> st, resps |-> resps]
    ELSE LET r == handle_command(st, Head(log).now, Head(log).command) IN
         RunSequentially(r.st, Tail(log), Append(resps, r.resp))

Replies == {socket_out[c][i] : c \in Connections, i \in 1..CommandsPerConn}

\* C6: the store, and every response, are those of running the commands
\* sequentially in the order the dispatcher dequeued them; and once every
\* connection has completed its CommandsPerConn commands, all of them INCR
\* of the same absent key, the replies are exactly 1..P*N and the key holds
\* P*N.
C6_CommandsAreSerialized ==
    /\ LET run == RunSequentially(StorageNew, applied, <<>>) IN
       /\ run.st = storage
       /\ run.resps = [i \in 1..Len(applied) |-> applied[i].resp]
    /\ (/\ \A c \in Connections : Len(socket_out[c]) = CommandsPerConn
        /\ \A i \in 1..Len(applied) : applied[i].command = Incr("k1"))
       => /\ Replies = {encode(IntegerResponse(v)) :
                          v \in 1..(NumConnections * CommandsPerConn)}
          /\ storage.hash_map["k1"].value = Integer(NumConnections * CommandsPerConn)

\* C6 witness: all connections have completed their commands, all INCR.
C6_Witness ==
    /\ \A c \in Connections : Len(socket_out[c]) = CommandsPerConn
    /\ Len(applied) = NumConnections * CommandsPerConn
    /\ \A i \in 1..Len(applied) : applied[i].command = Incr("k1")

-----------------------------------------------------------------------------
(* Claims about the generic commands                                       *)

\* k is in the table st and its stored expiration instant is <= now
ExpiredIn(st, now, k) ==
    /\ k \in DOMAIN st.hash_map
    /\ st.hash_map[k].exp # None
    /\ st.hash_map[k].exp[1] <= now
\* k is in the table st and not expired at now
LiveIn(st, now, k) == k \in DOMAIN st.hash_map /\ ~ExpiredIn(st, now, k)

\* C11: the TTL just answered for k is -2 iff k is absent, a key in the
\* table whose expiration is <= now included; -1 iff k is present without
\* expiration; and otherwise the floor of the remaining seconds, a positive
\* integer.
C11_TtlValues ==
    \A k \in Keys :
        last.cmd = Ttl(k) =>
            LET v == last.resp.int
                st == last.before IN
            /\ v = -2 <=> ~LiveIn(st, clock, k)
            /\ v = -1 <=> (LiveIn(st, clock, k) /\ st.hash_map[k].exp = None)
            /\ v \notin {-2, -1} =>
                  /\ v > 0
                  /\ v = (st.hash_map[k].exp[1] - clock) \div MsPerSec

\* C13: EXPIRE k t answers 1 iff k is in the table, and then gives k the
\* expiration now + t * 1000 ms, changes nothing else in the table and adds
\* the one entry (k, that instant) to the heap; on a key that is not in the
\* table it answers 0 and changes nothing.
C13_ExpireStep(k, t) ==
    LET exp == clock + t * MsPerSec
        heap == storage.key_expiration_queue
        heap2 == storage'.key_expiration_queue IN
    IF k \in DOMAIN storage.hash_map
      THEN /\ last'.resp = IntegerResponse(1)
           /\ storage'.hash_map = [storage.hash_map EXCEPT ![k].exp = Some(exp)]
           /\ \E i \in 1..Len(heap2) :
                 /\ heap2[i] = KeyWithExpiration(k, exp)
                 /\ heap = SubSeq(heap2, 1, i - 1) \o SubSeq(heap2, i + 1, Len(heap2))
      ELSE /\ last'.resp = IntegerResponse(0)
           /\ storage' = storage
C13_ExpireSetsExpirationOfExistingKey ==
    [][\A k \in Keys, t \in 0..MaxTtl :
          last'.cmd = Expire(k, t) => C13_ExpireStep(k, t)]_vars

\* C13 witness: an EXPIRE with a positive ttl has replaced the expiration
\* of a key that had one.
C13_Witness ==
    \E k \in Keys :
        /\ last.cmd.op = "Expire" /\ last.cmd.key = k /\ last.cmd.ttl > 0
        /\ last.resp = IntegerResponse(1)
        /\ last.before.hash_map[k].exp # None
        /\ storage.hash_map[k].exp # last.before.hash_map[k].exp

\* C14: the EXPIRE just answered for a key that was in the table with an
\* expiration <= now answered 0 and changed nothing.
C14_ExpireOfExpiredKeyIsRefused ==
    \A k \in Keys :
        (last.cmd.op = "Expire" /\ last.cmd.key = k /\ ExpiredIn(last.before, clock, k))
            => (last.resp = IntegerResponse(0) /\ storage = last.before)

\* C18: DEL answers the number of distinct listed keys that were in the
\* table, removes exactly the listed keys and changes nothing else.
C18_DelStep ==
    LET keys == last'.cmd.keys
        listed == {keys[i] : i \in 1..Len(keys)}
        hm == storage.hash_map IN
    /\ last'.resp = IntegerResponse(Cardinality(listed \cap DOMAIN hm))
    /\ DOMAIN storage'.hash_map = (DOMAIN hm) \ listed
    /\ \A k \in DOMAIN storage'.hash_map : storage'.hash_map[k] = hm[k]
    /\ storage'.key_expiration_queue = storage.key_expiration_queue
C18_DelCountsAndRemovesListedKeys ==
    [][last'.cmd.op = "Del" => C18_DelStep]_vars

\* C18 witness: DEL k1 k1 has removed k1, counted once, and left k2.
C18_Witness ==
    /\ last.cmd = Del(<<"k1", "k1">>)
    /\ last.resp = IntegerResponse(1)
    /\ "k1" \in DOMAIN last.before.hash_map
    /\ "k2" \in DOMAIN storage.hash_map

\* C19: the EXISTS just answered counted the listed keys that were present,
\* once per occurrence, a key whose expiration was <= now not being
\* present, and did not change the store.
C19_ExistsCountsLiveKeys ==
    last.cmd.op = "Exists" =>
        LET keys == last.cmd.keys IN
        /\ last.resp = IntegerResponse(
               Cardinality({i \in 1..Len(keys) : LiveIn(last.before, clock, keys[i])}))
        /\ storage = last.before

\* C20: after FLUSHALL the heap is empty and, for every key k, EXISTS k
\* answers 0, GET k answers Null and TTL k answers -2.
C20_FlushStep ==
    /\ storage'.key_expiration_queue = <<>>
    /\ \A k \in Keys :
          /\ handle_command(storage', clock, Exists(<<k>>)).resp = IntegerResponse(0)
          /\ handle_command(storage', clock, Get(k)).resp = Null
          /\ handle_command(storage', clock, Ttl(k)).resp = IntegerResponse(-2)
C20_FlushEmptiesTableAndHeap ==
    [][last'.cmd.op = "Flush" => C20_FlushStep]_vars

\* C20 witness: a FLUSHALL was handled when the table held both keys and
\* the heap an entry.
C20_Witness ==
    /\ last.cmd.op = "Flush"
    /\ DOMAIN last.before.hash_map = Keys
    /\ last.before.key_expiration_queue # <<>>
    /\ storage = StorageNew

-----------------------------------------------------------------------------
(* Claims about the string and integer commands                            *)

\* C12: SET k v puts String(v) without expiration in place of whatever k
\* held, so that TTL k answers -1 right after it, and changes nothing else.
C12_SetStep ==
    LET k == last'.cmd.key IN
    /\ storage'.hash_map =
          MapInsert(storage.hash_map, k,
                    ValueWithExpiration(String(last'.cmd.value), None))
    /\ storage'.key_expiration_queue = storage.key_expiration_queue
    /\ handle_command(storage', clock, Ttl(k)).resp = IntegerResponse(-1)
C12_SetOverwritesAndClearsExpiration ==
    [][last'.cmd.op = "Set" => C12_SetStep]_vars

\* C12 witness: a SET has replaced a list that had an expiration.
C12_Witness ==
    /\ last.cmd.op = "Set"
    /\ last.cmd.key \in DOMAIN last.before.hash_map
    /\ last.before.hash_map[last.cmd.key].value.kind = "List"
    /\ last.before.hash_map[last.cmd.key].exp # None

\* The integer commands, and the delta each adds (None when its argument
\* does not parse as an integer)
IntegerOps == {"Incr", "Decr", "IncrBy", "DecrBy"}
DeltaOf(cmd) ==
    CASE cmd.op = "Incr" -> Some(1)
      [] cmd.op = "Decr" -> Some(-1)
      [] cmd.op = "IncrBy" -> parse_isize(cmd.value)
      [] cmd.op = "DecrBy" ->
            IF parse_isize(cmd.value) = None THEN None
            ELSE Some(-parse_isize(cmd.value)[1])

\* C15: the integer command just answered for a key that held Integer(n)
\* (and was not expired) answered n plus its delta, and the key holds that.
C15_IntegerArithmetic ==
    (/\ last.cmd.op \in IntegerOps
     /\ DeltaOf(last.cmd) # None
     /\ LiveIn(last.before, clock, last.cmd.key)
     /\ last.before.hash_map[last.cmd.key].value.kind = "Integer")
        => LET sum == last.before.hash_map[last.cmd.key].value.int
                        + DeltaOf(last.cmd)[1] IN
           /\ last.resp = IntegerResponse(sum)
           /\ storage.hash_map[last.cmd.key].value = Integer(sum)

\* C16: the integer command just answered for a key that was not in the
\* table answered its delta, and the key holds Integer(delta).
C16_IncrOfAbsentKeyCreatesDelta ==
    (/\ last.cmd.op \in IntegerOps
     /\ DeltaOf(last.cmd) # None
     /\ last.cmd.key \notin DOMAIN last.before.hash_map)
        => /\ last.resp = IntegerResponse(DeltaOf(last.cmd)[1])
           /\ storage.hash_map[last.cmd.key].value = Integer(DeltaOf(last.cmd)[1])

\* C17: the integer command just answered for a key that held a string
\* that is not an integer (and was not expired), or with a delta that is
\* not an integer, answered the not-an-integer error and changed nothing.
C17_NotIntegerLeavesStoreUnchanged ==
    (/\ last.cmd.op \in IntegerOps
     /\ \/ DeltaOf(last.cmd) = None
        \/ /\ LiveIn(last.before, clock, last.cmd.key)
           /\ last.before.hash_map[last.cmd.key].value.kind = "String"
           /\ parse_isize(last.before.hash_map[last.cmd.key].value.bytes) = None)
        => /\ last.resp = Error(NOTINTEGER)
           /\ storage = last.before

\* The value MSET keys values leaves under key k: the one of the last pair
\* that names k
LastPairValue(keys, values, k) ==
    values[CHOOSE i \in 1..Len(keys) :
               keys[i] = k /\ \A j \in (i + 1)..Len(keys) : keys[j] # k]

\* C21: SET and MSET answer OK; a GET that follows SET k v answers v; a GET
\* or MGET of keys that the MSET just before wrote answers, per key, the
\* value of the last pair naming it, in the order MGET names the keys --
\* whatever the keys held before.
C21_WriteReadStep ==
    /\ last'.cmd.op \in {"Set", "MSet"} => last'.resp = OK
    /\ (last.cmd.op = "Set" /\ last'.cmd = Get(last.cmd.key))
          => last'.resp = SimpleString(last.cmd.value)
    /\ (/\ last.cmd.op = "MSet"
        /\ last'.cmd.op = "Get"
        /\ \E i \in 1..Len(last.cmd.keys) : last.cmd.keys[i] = last'.cmd.key)
          => last'.resp = SimpleString(LastPairValue(last.cmd.keys, last.cmd.values,
                                                     last'.cmd.key))
    /\ (/\ last.cmd.op = "MSet"
        /\ last'.cmd.op = "MGet"
        /\ \A j \in 1..Len(last'.cmd.keys) :
              \E i \in 1..Len(last.cmd.keys) : last.cmd.keys[i] = last'.cmd.keys[j])
          => last'.resp =
                Array([j \in 1..Len(last'.cmd.keys) |->
                         SimpleString(LastPairValue(last.cmd.keys, last.cmd.values,
                                                    last'.cmd.keys[j]))])
C21_WriteThenReadReturnsTheValue == [][C21_WriteReadStep]_vars

\* C21 witness: MGET k1 k1 has answered b, b right after MSET k1 a k1 b.
C21_Witness ==
    /\ last.cmd = MGet(<<"k1", "k1">>)
    /\ last.prev = MSet(<<"k1", "k1">>, <<<<"a">>, <<"b">>>>)
    /\ last.resp = Array(<<SimpleString(<<"b">>), SimpleString(<<"b">>)>>)

-----------------------------------------------------------------------------
(* Claims about the string commands                                        *)

\* C22: SETNX k v on a key that is absent or expired answers 1 and leaves
\* String(v) under k; on a key that holds a value (String, Integer or List)
\* it answers 0 and leaves the store unchanged.
C22_SetNxStep ==
    LET k == last'.cmd.key IN
    IF LiveIn(storage, clock, k)
      THEN /\ last'.resp = IntegerResponse(0)
           /\ storage' = storage
      ELSE /\ last'.resp = IntegerResponse(1)
           /\ storage'.hash_map[k].value = String(last'.cmd.value)
C22_SetNxSetsOnlyAbsentKeys ==
    [][last'.cmd.op = "SetNx" => C22_SetNxStep]_vars

\* The response GETSET and GETDEL give for the value a key holds
PriorValueResponse(value) ==
    IF value.kind = "String" THEN BulkString(value.bytes)
    ELSE BulkString(to_string(value.int))

\* C23: GETSET k v and GETDEL k answer the value k held as a BulkString (an
\* Integer in decimal), or Null if k was absent (an expired key included),
\* and then k holds String(v), respectively is removed; if k held a List
\* both answer WRONGTYPE and the store is left unchanged.
C23_GetSetDelStep ==
    LET k == last'.cmd.key
        after == IF last'.cmd.op = "GetSet"
                   THEN MapInsert(storage.hash_map, k,
                                  ValueWithExpiration(String(last'.cmd.value), None))
                   ELSE MapRemove(storage.hash_map, k) IN
    IF ~LiveIn(storage, clock, k)
      THEN last'.resp = Null /\ storage'.hash_map = after
    ELSE IF storage.hash_map[k].value.kind = "List"
      THEN last'.resp = Error(WRONGTYPE) /\ storage' = storage
    ELSE /\ last'.resp = PriorValueResponse(storage.hash_map[k].value)
         /\ storage'.hash_map = after
C23_GetSetAndGetDelReturnThePriorValue ==
    [][last'.cmd.op \in {"GetSet", "GetDel"} => C23_GetSetDelStep]_vars

\* C24: MGET k1..kn answers an array of n elements, the i-th being a
\* SimpleString with the value of ki when ki holds a String or an Integer
\* (in decimal), and Null when ki is missing or expired; the store is not
\* modified.
C24_MGetStep ==
    LET keys == last'.cmd.keys IN
    /\ last'.resp.kind = "Array"
    /\ Len(last'.resp.items) = Len(keys)
    /\ \A i \in 1..Len(keys) :
          IF ~LiveIn(storage, clock, keys[i]) THEN last'.resp.items[i] = Null
          ELSE LET value == storage.hash_map[keys[i]].value IN
               /\ value.kind = "String" => last'.resp.items[i] = SimpleString(value.bytes)
               /\ value.kind = "Integer"
                     => last'.resp.items[i] = SimpleString(to_string(value.int))
    /\ storage' = storage
C24_MGetAnswersOneElementPerKey ==
    [][last'.cmd.op = "MGet" => C24_MGetStep]_vars

-----------------------------------------------------------------------------
(* Claims about the list commands                                          *)

\* The byte strings a response to LPOP or RPOP carries
PoppedOf(response) ==
    IF response.kind = "Array"
      THEN [i \in 1..Len(response.items) |-> response.items[i].bytes]
    ELSE IF response.kind = "BulkString" THEN <<response.bytes>>
    ELSE <<>>

\* What n single RPOP key, handled one after the other from the store st,
\* carry: a sequence of n sequences of byte strings
RECURSIVE RPopEach(_, _, _, _)
RPopEach(st, now, key, n) ==
    IF n = 0 THEN <<>>
    ELSE LET r == handle_command(st, now, RPop(key, 1)) IN
         <<PoppedOf(r.resp)>> \o RPopEach(r.st, now, key, n - 1)

\* C25: when LPUSH k v1..vn is handled for a key that is not in the table
\* (a new list is created) or holds an empty list (the values are pushed
\* on it), the n single RPOP k that follow yield v1, v2, ..., vn.
C25_LPushStep ==
    LET k == last'.cmd.key
        values == last'.cmd.values IN
    (\/ k \notin DOMAIN storage.hash_map
     \/ storage.hash_map[k].value = List(<<>>))
        => RPopEach(storage', clock', k, Len(values))
              = [i \in 1..Len(values) |-> <<values[i]>>]
C25_LPushThenRPopYieldsArgumentOrder ==
    [][last'.cmd.op = "LPush" => C25_LPushStep]_vars

\* C25 witness: LPUSH k1 b c has pushed on an existing, empty list that is
\* readable (no expiration).
C25_Witness ==
    /\ last.cmd = LPush("k1", <<<<"b">>, <<"c">>>>)
    /\ "k1" \in DOMAIN last.before.hash_map
    /\ last.before.hash_map["k1"] = ValueWithExpiration(List(<<>>), None)
    /\ last.resp = IntegerResponse(2)

\* What LPUSH/RPUSH k v1..vn must do apart from the end the values are at:
\* on a key that is not in the table it creates a List, and whenever it
\* answers an integer, that is the length of the list k then holds.
C26_CreatesListAndAnswersLength ==
    LET k == last'.cmd.key IN
    /\ k \notin DOMAIN storage.hash_map
          => /\ last'.resp = IntegerResponse(Len(last'.cmd.values))
             /\ storage'.hash_map[k].value.kind = "List"
    /\ last'.resp.kind = "Integer"
          => /\ storage'.hash_map[k].value.kind = "List"
             /\ last'.resp.int = Len(storage'.hash_map[k].value.list)

\* What a single LPOP k (RPOP k) handled next would carry
NextPop(op) ==
    PoppedOf(handle_command(storage', clock',
                            IF op = "LPush" THEN LPop(last'.cmd.key, 1)
                            ELSE RPop(last'.cmd.key, 1)).resp)

\* C26 as stated: LPUSH/RPUSH k v1..vn create a List on an absent key and
\* answer the new length; after LPUSH the FIRST argument v1 is at the head
\* (an LPOP k returns v1), after RPUSH the last argument vn is at the tail.
C26_PushStepAsStated ==
    LET values == last'.cmd.values IN
    /\ C26_CreatesListAndAnswersLength
    /\ last'.resp.kind = "Integer"
          => NextPop(last'.cmd.op)
                = <<IF last'.cmd.op = "LPush" THEN values[1] ELSE values[Len(values)]>>
C26_LPushLeavesFirstArgumentAtHead ==
    [][last'.cmd.op \in {"LPush", "RPush"} => C26_PushStepAsStated]_vars

\* C26 amended: LPUSH/RPUSH k v1..vn create a List on an absent key and
\* answer the new length; after LPUSH the LAST argument vn is at the head
\* (an LPOP k returns vn), after RPUSH the last argument vn is at the tail
\* (an RPOP k returns vn).
C26_PushStep ==
    LET values == last'.cmd.values IN
    /\ C26_CreatesListAndAnswersLength
    /\ last'.resp.kind = "Integer" => NextPop(last'.cmd.op) = <<values[Len(values)]>>
C26_PushLeavesLastArgumentAtItsEnd ==
    [][last'.cmd.op \in {"LPush", "RPush"} => C26_PushStep]_vars

\* C26 witness: LPUSH k1 b c has pushed on a non-empty list: c is at the
\* head and the answer is the length of the whole list.
C26_Witness ==
    /\ last.cmd = LPush("k1", <<<<"b">>, <<"c">>>>)
    /\ "k1" \in DOMAIN last.before.hash_map
    /\ last.before.hash_map["k1"].value = List(<<<<"a">>>>)
    /\ storage.hash_map["k1"].value = List(<<<<"c">>, <<"b">>, <<"a">>>>)
    /\ last.resp = IntegerResponse(3)

\* C27: LPOP/RPOP k count on a key holding a list of length L answers with
\* the min(count, L) elements at the given end, in pop order, and leaves
\* the other elements in their order; when k is absent (an expired key
\* included), the list is empty or count = 0, it answers Null and changes
\* nothing.
C27_PopStep ==
    LET k == last'.cmd.key
        count == last'.cmd.count IN
    IF ~LiveIn(storage, clock, k)
      THEN last'.resp = Null /\ storage' = storage
    ELSE storage.hash_map[k].value.kind = "List" =>
         LET list == storage.hash_map[k].value.list
             L == Len(list)
             n == Min(count, L) IN
         IF n = 0 THEN last'.resp = Null /\ storage' = storage
         ELSE IF last'.cmd.op = "LPop"
           THEN /\ PoppedOf(last'.resp) = SubSeq(list, 1, n)
                /\ storage' = [storage EXCEPT !.hash_map[k].value =
                                                  List(SubSeq(list, n + 1, L))]
         ELSE /\ PoppedOf(last'.resp) = [i \in 1..n |-> list[L + 1 - i]]
              /\ storage' = [storage EXCEPT !.hash_map[k].value =
                                                List(SubSeq(list, 1, L - n))]
C27_PopTakesUpToCountFromTheEnd ==
    [][last'.cmd.op \in {"LPop", "RPop"} => C27_PopStep]_vars

\* C28: LPOP k or RPOP k given without a count, for a key holding a
\* non-empty list, answers a single bulk string carrying the popped
\* element (the head for LPOP, the tail for RPOP), not an array.
C28_PopWithoutCountStep ==
    LET k == last'.cmd.key IN
    (/\ LiveIn(storage, clock, k)
     /\ storage.hash_map[k].exp = None
     /\ storage.hash_map[k].value.kind = "List"
     /\ storage.hash_map[k].value.list # <<>>)
        => LET list == storage.hash_map[k].value.list IN
           last'.resp = BulkString(IF last'.cmd.op = "LPop" THEN list[1]
                                   ELSE list[Len(list)])
C28_PopWithoutCountAnswersSingleBulk ==
    [][last'.cmd \in {ParsePop(name, <<"k1">>)[1] : name \in {"LPOP", "RPOP"}}
          => C28_PopWithoutCountStep]_vars

\* C29: LPUSH/RPUSH/LPOP/RPOP on a key holding a String or an Integer, and
\* GET on a key holding a List, answer the WRONGTYPE error and leave the
\* store unchanged (the key keeps its value, kind and expiration).
C29_WrongTypeStep ==
    LET k == last'.cmd.key IN
    (/\ LiveIn(storage, clock, k)
     /\ IF last'.cmd.op = "Get"
          THEN storage.hash_map[k].value.kind = "List"
          ELSE storage.hash_map[k].value.kind \in {"String", "Integer"})
        => /\ last'.resp = Error(WRONGTYPE)
           /\ storage' = storage
C29_TypeErrorsLeaveStoreUnchanged ==
    [][last'.cmd.op \in {"LPush", "RPush", "LPop", "RPop", "Get"}
          => C29_WrongTypeStep]_vars

-----------------------------------------------------------------------------
(* Claims about the inbound streams                                        *)

\* The number of complete GET k commands a stream starts with
RECURSIVE LeadingGets(_)
LeadingGets(stream) ==
    IF Len(stream) >= Len(GetK) /\ SubSeq(stream, 1, Len(GetK)) = GetK
      THEN 1 + LeadingGets(SubSeq(stream, Len(GetK) + 1, Len(stream)))
      ELSE 0

\* No command is enqueued for anything but the well-formed commands the
\* stream starts with, and when the handler has ended it has enqueued
\* exactly those.
C30_OnlyWellFormedCommandsEnqueued ==
    /\ Len(reader.enqueued) <= LeadingGets(reader.stream)
    /\ reader.pc = "terminated"
          => reader.enqueued = [i \in 1..LeadingGets(reader.stream) |-> Get(<<"k">>)]

\* C30: whatever the bytes of a connection (an unknown tag byte, a length
\* line ending in a bare \n, a length that is not an integer, the stream
\* ending in mid-token), the handler never panics, and no command is
\* enqueued for the malformed input: the handler ends having enqueued the
\* well-formed commands only.
C30_FramingErrorEndsHandlerCleanly ==
    /\ reader.pc # "panicked"
    /\ C30_OnlyWellFormedCommandsEnqueued

-----------------------------------------------------------------------------
(* Claims about the requests                                               *)

\* The arity table (spec section 4.2): the element counts a command takes
ArityMatches(name, count) ==
    CASE name \in {"GET", "GETDEL", "TTL", "INCR", "DECR"} -> count = 2
      [] name \in {"SET", "SETNX", "GETSET", "INCRBY", "DECRBY", "EXPIRE"} -> count = 3
      [] name = "FLUSHALL" -> count = 1
      [] name = "MSET" -> count >= 3 /\ count % 2 = 1

\* The request is `name` with `args` and the handler has read it
RequestRead(name, args) ==
    /\ reader.stream = Request(<<name>> \o args)
    /\ reader.pc \in {"recv", "terminated", "panicked"}

\* C31: a Command is yielded only for an array whose element count matches
\* the arity table; an array with too few or too many elements, the empty
\* array included, is rejected with an error (the handler does not panic)
\* and produces no Command.
C31_CommandOnlyWhenArityMatches ==
    /\ reader.stream = Request(<<>>) => reader.pc # "panicked" /\ reader.enqueued = <<>>
    /\ \A name \in CommandNames, args \in ArgumentLists :
          reader.stream = Request(<<name>> \o args)
            => /\ reader.pc # "panicked"
               /\ reader.enqueued # <<>>
                    => ArityMatches(bytes_to_string(name), 1 + Len(args))

\* C32: the token stream yields String(b) for $n only when the n payload
\* bytes are followed by exactly \r\n; anything else after the payload is a
\* framing error: no token is yielded and the stream terminates.
C32_BulkStringNeedsTrailingCrlf ==
    \A payload \in Payloads, trailer \in Trailers :
        reader.stream = Bulk(payload, trailer)
          => /\ reader.pc # "panicked"
             /\ reader.enqueued # <<>>
                  => trailer = CRLF /\ reader.enqueued = <<TokenString(payload)>>
             /\ reader.pc = "terminated" /\ trailer = CRLF
                  => reader.enqueued = <<TokenString(payload)>>

-----------------------------------------------------------------------------
(* Claims about the encoder                                                *)

\* The decimal form of an integer, digit by digit
RECURSIVE Decimal(_)
Decimal(n) ==
    IF n < 0 THEN <<"-">> \o Decimal(-n)
    ELSE IF n < 10 THEN <<Digits[n + 1]>>
    ELSE Decimal(n \div 10) \o <<Digits[(n % 10) + 1]>>

\* The bytes the RESP encoder is specified to give (spec section 4.3)
RECURSIVE SpecifiedBytes(_)
SpecifiedBytes(response) ==
    LET Concat(items) ==
            LET RECURSIVE Cat(_)
                Cat(i) == IF i > Len(items) THEN <<>>
                          ELSE SpecifiedBytes(items[i]) \o Cat(i + 1) IN
            Cat(1) IN
    CASE response.kind = "SimpleString" -> <<"+">> \o response.bytes \o <<"\r", "\n">>
      [] response.kind = "BulkString" ->
            <<"$">> \o Decimal(Len(response.bytes)) \o <<"\r", "\n">>
              \o response.bytes \o <<"\r", "\n">>
      [] response.kind = "Integer" -> <<":">> \o Decimal(response.int) \o <<"\r", "\n">>
      [] response.kind = "Error" -> <<"-", response.msg, "\r", "\n">>
      [] response.kind = "Null" -> <<"$", "-", "1", "\r", "\n">>
      [] response.kind = "NullArray" -> <<"*", "-", "1", "\r", "\n">>
      [] response.kind = "Array" ->
            <<"*">> \o Decimal(Len(response.items)) \o <<"\r", "\n">>
              \o Concat(response.items)

\* C33: encode gives for every response exactly the specified bytes, and
\* the token stream over the bytes of BulkString(b) yields b exactly, then
\* ends, whatever bytes b holds.
C33_EncodeGivesTheSpecifiedBytes ==
    reader.pc \in {"encoded", "token", "terminated", "panicked"}
      => /\ reader.stream = SpecifiedBytes(last.resp)
         /\ last.resp.kind = "BulkString"
              => /\ reader.pc # "panicked"
                 /\ reader.enqueued \in {<<>>, <<TokenString(last.resp.bytes)>>}
                 /\ reader.pc = "token" /\ reader.enqueued = <<>> => inbound = reader.stream
                 /\ reader.pc = "terminated"
                      => reader.enqueued = <<TokenString(last.resp.bytes)>>

\* A bulk string holding \r\n was encoded and came back from the token
\* stream
C33_Witness ==
    /\ reader.pc = "terminated"
    /\ last.resp = BulkString(<<"\r", "\n">>)
    /\ reader.stream = <<"$", "2", "\r", "\n", "\r", "\n", "\r", "\n">>
    /\ reader.enqueued = <<TokenString(<<"\r", "\n">>)>>

-----------------------------------------------------------------------------
(* Claims about the connections                                            *)

\* The i-th response written on connection c, the last so far, is a
\* WRONGTYPE or a "not an integer" error
ErrorWritten(c, i) ==
    /\ Len(socket_out[c]) = i
    /\ socket_out[c][i] \in {encode(Error(WRONGTYPE)), encode(Error(NOTINTEGER))}

\* C34: a semantic error does not end the connection.  After a command of
\* a connection is answered with a WRONGTYPE or "value is not an integer"
\* error, the same handler enqueues the next command of the connection and
\* receives and writes its reply; the dispatcher does not stop, and every
\* other connection waiting for a reply gets it.
C34_ConnectionContinuesAfterSemanticError ==
    /\ [](dispatcher.pc # "panicked")
    /\ \A c \in Connections : \A i \in 1..(CommandsPerConn - 1) :
          ErrorWritten(c, i)
            ~> (handler[c].pc = "read" /\ handler[c].n = i + 1
                  /\ Len(socket_out[c]) = i + 1)
    /\ \A c \in Connections : \A d \in Connections \ {c} :
          ((\E i \in 1..CommandsPerConn : ErrorWritten(c, i)) /\ handler[d].pc = "recv")
            ~> handler[d].pc = "read"

\* Connection 2 was answered "not an integer" and then WRONGTYPE, and
\* connection 1 was answered after the first error
C34_Witness ==
    /\ socket_out[2] = <<encode(Error(NOTINTEGER)), encode(Error(WRONGTYPE))>>
    /\ handler[2].commands = <<Incr("k1"), LPush("k1", <<<<"a">>>>)>>
    /\ Len(socket_out[1]) = 2
    /\ Len(applied) = 4
    /\ applied[2].resp = Error(NOTINTEGER)
    /\ applied[3].sender.conn = 1

-----------------------------------------------------------------------------
(* Claims about keys that have an expiration                               *)

\* k is in the table of st with an expiration strictly after now
FutureIn(st, now, k) ==
    /\ k \in DOMAIN st.hash_map
    /\ st.hash_map[k].exp # None
    /\ st.hash_map[k].exp[1] > now

\* C39: a key whose expiration is strictly in the future is still live.  GET
\* answers its value; INCR/DECR/INCRBY/DECRBY on Integer(n) answer n plus
\* the delta and store it; LPUSH/RPUSH on a list put the values at its head
\* or tail and answer the new length; LPOP/RPOP take the element at that end
\* of the list.  None treats the key as absent.
C39_LiveKeyStep ==
    LET k == last'.cmd.key
        op == last'.cmd.op
        value == storage.hash_map[k].value
        after == storage'.hash_map[k].value IN
    /\ (op = "Get" /\ value.kind = "String") => last'.resp = SimpleString(value.bytes)
    /\ (op = "Get" /\ value.kind = "Integer") => last'.resp = IntegerResponse(value.int)
    /\ (op \in IntegerOps /\ value.kind = "Integer")
          => /\ last'.resp = IntegerResponse(value.int + DeltaOf(last'.cmd)[1])
             /\ after = Integer(value.int + DeltaOf(last'.cmd)[1])
    /\ (op = "LPush" /\ value.kind = "List")
          => /\ after = List(Reverse(last'.cmd.values) \o value.list)
             /\ last'.resp = IntegerResponse(Len(after.list))
    /\ (op = "RPush" /\ value.kind = "List")
          => /\ after = List(value.list \o last'.cmd.values)
             /\ last'.resp = IntegerResponse(Len(after.list))
    /\ (op = "LPop" /\ value.kind = "List" /\ value.list # <<>>)
          => /\ PoppedOf(last'.resp) = <<Head(value.list)>>
             /\ after = List(Tail(value.list))
    /\ (op = "RPop" /\ value.kind = "List" /\ value.list # <<>>)
          => /\ PoppedOf(last'.resp) = <<value.list[Len(value.list)]>>
             /\ after = List(SubSeq(value.list, 1, Len(value.list) - 1))
C39_KeyWithFutureExpirationIsLive ==
    [][(/\ last'.cmd.op \in IntegerOps \cup {"Get", "LPush", "RPush", "LPop", "RPop"}
        /\ FutureIn(storage, clock, last'.cmd.key))
          => C39_LiveKeyStep]_vars

\* The stored expiration of every key is as it was
ExpirationsUnchanged ==
    /\ DOMAIN storage'.hash_map = DOMAIN storage.hash_map
    /\ \A k \in DOMAIN storage.hash_map :
          storage'.hash_map[k].exp = storage.hash_map[k].exp

\* C40: INCR/DECR/INCRBY/DECRBY, LPUSH/RPUSH and LPOP/RPOP on an existing
\* key (in the table and not expired), and the read commands GET, MGET, TTL
\* and EXISTS on any key, leave the stored expiration of every key
\* unchanged.
C40_InPlaceAndReadCommandsKeepExpirations ==
    [][(\/ last'.cmd.op \in {"Get", "MGet", "Ttl", "Exists"}
        \/ /\ last'.cmd.op \in IntegerOps \cup {"LPush", "RPush", "LPop", "RPop"}
           /\ LiveIn(storage, clock, last'.cmd.key))
          => ExpirationsUnchanged]_vars

====
